---- MODULE Spec2Model ----
(***************************************************************************)
(* Location service (jinuthankachan/location): geo levels, locations,      *)
(* name maps and parent/child relations kept in four soft-deleting tables  *)
(* behind postgres.Store and the ServiceOnPostgres facade.                 *)
(*                                                                         *)
(* Every call runs in one database transaction, so a call is one step.     *)
(* Rows of name_maps and relations whose deleted_at is set are left out of *)
(* the tables below: every query of the code on those two tables filters   *)
(* on deleted_at IS NULL (written out, or added by gorm's soft-delete      *)
(* scope).  Soft-deleted geo_levels and locations rows are kept, since the *)
(* unique constraint on geo_levels.name and the foreign key of name_maps   *)
(* still see them.                                                         *)
(*                                                                         *)
(* Identifiers: a uuid is a positive integer; the string form of uuid n is *)
(* n itself and 0 stands for a string that uuid.Parse rejects.             *)
(***************************************************************************)
EXTENDS Integers, Sequences, FiniteSets, TLC

\* ---------------------------------------------------------------- bounds
MaxLocations == 3
MaxLevels == 2
MaxNameRows == 3
MaxNamedLocations == 2
MaxList == 2
MaxStatements == 3

\* ------------------------------------------------------------ input sets
NoRank == -1
Ranks == {1, 2}
RankInputs == Ranks \cup {NoRank}
Texts == {"a", "b"}
TextInputs == Texts \cup {""}
LevelNameInputs == {"", "country", "COUNTRY", "STATE"}
NoArg == "<nil>"

MalformedId == 0
UUIDs == 1..MaxLocations
IdStrings == UUIDs \cup {MalformedId}
\* a second spelling of a uuid (upper-case hex digits), as a caller may pass it
UpperSpelling(id) == 0 - id
IdSpellings == IdStrings \cup {UpperSpelling(id) : id \in UUIDs}
LevelIds == 1..MaxLevels
NameRowIds == 1..MaxNameRows

SeqsUpTo(S, n) == UNION {[1..k -> S] : k \in 0..n}

\* ---------------------------------------------------------------- errors
OK == "nil"
ErrPrimaryNameExists == "ErrPrimaryNameExists"
ErrInvalidHierarchy == "ErrInvalidHierarchy"
ErrDuplicateRelation == "ErrDuplicateRelation"
ErrLocationNotFound == "ErrLocationNotFound"
ErrGeoLevelNotExist == "ErrGeoLevelNotExist"
ErrNameRequired == "ErrNameRequired"
ErrNameAlreadyExists == "ErrNameAlreadyExists"
ErrCannotDeletePrimary == "ErrCannotDeletePrimary"
ErrGeoLevelNameRequired == "ErrGeoLevelNameRequired"
ErrGeoLevelAlreadyExists == "ErrGeoLevelAlreadyExists"
ErrGeoLevelNotFound == "ErrGeoLevelNotFound"
ErrGeoLevelInUse == "ErrGeoLevelInUse"
ErrRelationNotFound == "ErrRelationNotFound"
ErrSelfRelation == "parent and child cannot be the same location"
ErrNameNotFound == "name not found for location"
ErrParentChildNotFound == "relation not found for parent and child"
ErrParentAtLevelNotFound == "parent at level not found"
ErrInvalidUUID == "invalid UUID"
ErrDatabase == "database constraint violation"
ErrContext == "context canceled"

VARIABLES geo_levels, locations, name_maps, relations, err

vars == <<geo_levels, locations, name_maps, relations, err>>

\* ----------------------------------------------------------- conversions
\* strings.ToUpper over the level names the model feeds in
ToUpper(s) ==
    CASE s = "country" -> "COUNTRY"
      [] s = "state" -> "STATE"
      [] OTHER -> s

\* uuid.Parse: the uuid of a well-formed string, none for a malformed one
\* (both spellings of a uuid parse to it)
uuidFromString(s) ==
    IF s \in UUIDs THEN [ok |-> TRUE, id |-> s]
    ELSE IF \E id \in UUIDs : s = UpperSpelling(id)
      THEN [ok |-> TRUE, id |-> CHOOSE id \in UUIDs : s = UpperSpelling(id)]
    ELSE [ok |-> FALSE, id |-> MalformedId]

\* uuid.UUID.String: the canonical lower-case spelling
uuidString(id) == id

\* ---------------------------------------------------------------- tables
LiveLevels == {g \in geo_levels : ~g.deleted}
LiveLocations == {l \in locations : ~l.deleted}
LocationExists(id) == \E l \in LiveLocations : l.id = id
LocationRowExists(id) == \E l \in locations : l.id = id
LocationOf(id) == CHOOSE l \in LiveLocations : l.id = id
LevelOf(id) == CHOOSE g \in geo_levels : g.id = id
LevelByName(name) == {g \in LiveLevels : g.name = name}

NamesOf(rows, loc) == {n \in rows : n.location_id = loc}
NamedRows(rows, loc, name) == {n \in rows : n.location_id = loc /\ n.name = name}
PrimaryRows(rows, loc) == {n \in rows : n.location_id = loc /\ n.is_primary}

FreeNameIds(rows) == NameRowIds \ {n.id : n \in rows}
NewNameId(rows) == CHOOSE i \in FreeNameIds(rows) : \A j \in FreeNameIds(rows) : i <= j
NewLocationId == Cardinality(locations) + 1
NewLevelId == Cardinality(geo_levels) + 1

\* faulty variant of Demote: the UPDATE is left out
DemoteNothing(rows, loc) == rows

\* faulty variant of Demote: the UPDATE lacks its location_id condition
DemoteEverywhere(rows, loc) ==
    {IF n.is_primary THEN [n EXCEPT !.is_primary = FALSE] ELSE n : n \in rows}

\* UPDATE name_maps SET is_primary = false WHERE location_id = ? AND is_primary
Demote(rows, loc) ==
    {IF n.location_id = loc /\ n.is_primary THEN [n EXCEPT !.is_primary = FALSE] ELSE n : n \in rows}

\* ------------------------------------------------------------ name store
\* NameMap.BeforeCreate: a primary row may not be created next to another
NameMapBeforeCreate(rows, loc, isPrimary) ==
    IF isPrimary /\ PrimaryRows(rows, loc) # {} THEN ErrPrimaryNameExists ELSE OK

\* the rows InsertNameMap holds when it reaches tx.Create
InsertNameMapDemoted(rows, loc, isPrimary) ==
    IF isPrimary /\ PrimaryRows(rows, loc) # {} THEN Demote(rows, loc) ELSE rows

\* faulty variant of InsertNameMapCheck: the count of equal names is left out
InsertNameMapCheckNoCount(rows, locationID, name) ==
    IF name = "" THEN ErrNameRequired
    ELSE IF ~LocationExists(locationID) THEN ErrLocationNotFound
    ELSE OK

\* the checks InsertNameMap makes before it writes
InsertNameMapCheck(rows, locationID, name) ==
    IF name = "" THEN ErrNameRequired
    ELSE IF ~LocationExists(locationID) THEN ErrLocationNotFound
    ELSE IF NamedRows(rows, locationID, name) # {} THEN ErrNameAlreadyExists
    ELSE OK

\* Store.InsertNameMap on a name_maps table: the error and the table after
InsertNameMapOn(rows, locationID, name, isPrimary) ==
    LET check == InsertNameMapCheck(rows, locationID, name)
        demoted == InsertNameMapDemoted(rows, locationID, isPrimary)
        hook == NameMapBeforeCreate(demoted, locationID, isPrimary)
    IN  IF check # OK THEN [err |-> check, rows |-> rows]
        ELSE IF hook # OK THEN [err |-> hook, rows |-> rows]
        ELSE [err |-> OK,
              rows |-> demoted \cup
                         {[id |-> NewNameId(rows), location_id |-> locationID,
                           name |-> name, is_primary |-> isPrimary]}]

InsertNameMap(locationID, name, isPrimary) ==
    /\ UNCHANGED <<geo_levels, locations, relations>>
    /\ InsertNameMapCheck(name_maps, locationID, name) # OK \/ FreeNameIds(name_maps) # {}
    /\ err' = InsertNameMapOn(name_maps, locationID, name, isPrimary).err
    /\ name_maps' = InsertNameMapOn(name_maps, locationID, name, isPrimary).rows

\* the rows a bulk Create of names adds, one per list element
RECURSIVE BulkRows(_, _, _)
BulkRows(rows, loc, names) ==
    IF names = <<>> THEN rows
    ELSE BulkRows(rows \cup {[id |-> NewNameId(rows), location_id |-> loc,
                              name |-> Head(names), is_primary |-> FALSE]},
                  loc, Tail(names))

InsertNames(locationID, names) ==
    /\ UNCHANGED <<geo_levels, locations, relations>>
    /\ IF Len(names) = 0
         THEN err' = OK /\ UNCHANGED name_maps
       ELSE IF ~LocationRowExists(locationID)
         THEN err' = ErrDatabase /\ UNCHANGED name_maps
       ELSE /\ Cardinality(FreeNameIds(name_maps)) >= Len(names)
            /\ err' = OK
            /\ name_maps' = BulkRows(name_maps, locationID, names)

\* faulty variant of DeleteNameMapOutcomes: the matched row is deleted, primary or not
DeleteNameMapUnguarded(rows, locationID, name) ==
    IF name = "" THEN {[err |-> ErrNameRequired, rows |-> rows]}
    ELSE IF NamedRows(rows, locationID, name) = {} THEN {[err |-> OK, rows |-> rows]}
    ELSE {[err |-> OK, rows |-> rows \ {nameMap}] : nameMap \in NamedRows(rows, locationID, name)}

\* faulty variant of DeleteNameMapOutcomes: a name that is not bound is an error
DeleteNameMapStrict(rows, locationID, name) ==
    IF name = "" THEN {[err |-> ErrNameRequired, rows |-> rows]}
    ELSE IF NamedRows(rows, locationID, name) = {} THEN {[err |-> ErrNameNotFound, rows |-> rows]}
    ELSE {IF nameMap.is_primary THEN [err |-> ErrCannotDeletePrimary, rows |-> rows]
                                ELSE [err |-> OK, rows |-> rows \ {nameMap}] :
            nameMap \in NamedRows(rows, locationID, name)}

\* Store.DeleteNameMap on a name_maps table: the error and the table after,
\* one outcome per row that First may return
DeleteNameMapOutcomes(rows, locationID, name) ==
    IF name = "" THEN {[err |-> ErrNameRequired, rows |-> rows]}
    ELSE IF NamedRows(rows, locationID, name) = {} THEN {[err |-> OK, rows |-> rows]}
    ELSE {IF nameMap.is_primary THEN [err |-> ErrCannotDeletePrimary, rows |-> rows]
                                ELSE [err |-> OK, rows |-> rows \ {nameMap}] :
            nameMap \in NamedRows(rows, locationID, name)}

DeleteNameMap(locationID, name) ==
    /\ UNCHANGED <<geo_levels, locations, relations>>
    /\ \E out \in DeleteNameMapOutcomes(name_maps, locationID, name) :
          err' = out.err /\ name_maps' = out.rows

\* faulty variant of UpdateNameMap: the saved row loses its is_primary flag
UpdateNameMapUnflagged(locationID, oldName, newName) ==
    /\ UNCHANGED <<geo_levels, locations, relations>>
    /\ IF oldName = "" \/ newName = ""
         THEN err' = ErrNameRequired /\ UNCHANGED name_maps
       ELSE IF NamedRows(name_maps, locationID, oldName) = {}
         THEN err' = ErrNameNotFound /\ UNCHANGED name_maps
       ELSE \E nameMap \in NamedRows(name_maps, locationID, oldName) :
              IF \E n \in NamedRows(name_maps, locationID, newName) : n.id # nameMap.id
                THEN err' = ErrNameAlreadyExists /\ UNCHANGED name_maps
                ELSE /\ err' = OK
                     /\ name_maps' = (name_maps \ {nameMap}) \cup
                          {[nameMap EXCEPT !.name = newName, !.is_primary = FALSE]}

UpdateNameMap(locationID, oldName, newName) ==
    /\ UNCHANGED <<geo_levels, locations, relations>>
    /\ IF oldName = "" \/ newName = ""
         THEN err' = ErrNameRequired /\ UNCHANGED name_maps
       ELSE IF NamedRows(name_maps, locationID, oldName) = {}
         THEN err' = ErrNameNotFound /\ UNCHANGED name_maps
       ELSE \E nameMap \in NamedRows(name_maps, locationID, oldName) :
              IF \E n \in NamedRows(name_maps, locationID, newName) : n.id # nameMap.id
                THEN err' = ErrNameAlreadyExists /\ UNCHANGED name_maps
                ELSE /\ err' = OK
                     /\ name_maps' = (name_maps \ {nameMap}) \cup {[nameMap EXCEPT !.name = newName]}

SetPrimaryName(locationID, name) ==
    /\ UNCHANGED <<geo_levels, locations, relations>>
    /\ IF name = ""
         THEN err' = ErrNameRequired /\ UNCHANGED name_maps
       ELSE IF ~LocationExists(locationID)
         THEN err' = ErrLocationNotFound /\ UNCHANGED name_maps
       ELSE IF NamedRows(name_maps, locationID, name) = {}
         THEN LET demoted == Demote(name_maps, locationID)
                  hook == NameMapBeforeCreate(demoted, locationID, TRUE)
              IN  IF hook # OK
                    THEN err' = hook /\ UNCHANGED name_maps
                    ELSE /\ FreeNameIds(name_maps) # {}
                         /\ err' = OK
                         /\ name_maps' = demoted \cup
                              {[id |-> NewNameId(name_maps), location_id |-> locationID,
                                name |-> name, is_primary |-> TRUE]}
       ELSE \E nameMap \in NamedRows(name_maps, locationID, name) :
              IF nameMap.is_primary
                THEN err' = OK /\ UNCHANGED name_maps
                ELSE /\ err' = OK
                     /\ name_maps' = (Demote(name_maps, locationID) \ {nameMap})
                                        \cup {[nameMap EXCEPT !.is_primary = TRUE]}

\* -------------------------------------------------------- location store
\* the write of InsertLocation's transaction that the database refuses
WriteFaults == {"none", "location", "name"}

\* faulty variant of InsertLocationPersist: the written rows stay after an error
InsertLocationNoRollback(before, written, failed) == written

\* what the transaction of InsertLocation leaves: the written rows when the
\* function returned nil, the rows of before when it returned an error
InsertLocationPersist(before, written, failed) == IF failed THEN before ELSE written

\* Store.InsertLocation, the database refusing the write named by fault
InsertLocationTx(geoLevelName, name, fault) ==
    /\ UNCHANGED <<geo_levels, relations>>
    /\ IF name = ""
         THEN err' = ErrNameRequired /\ UNCHANGED <<locations, name_maps>>
       ELSE IF LevelByName(ToUpper(geoLevelName)) = {}
         THEN err' = ErrGeoLevelNotExist /\ UNCHANGED <<locations, name_maps>>
       ELSE \E geoLevel \in LevelByName(ToUpper(geoLevelName)) :
              LET id == NewLocationId
                  hook == NameMapBeforeCreate(name_maps, id, TRUE)
                  result == IF fault # "none" THEN ErrDatabase ELSE hook
                  written ==
                    [locations |-> IF fault = "location" THEN locations
                                   ELSE locations \cup
                                          {[id |-> id, geo_level_id |-> geoLevel.id, deleted |-> FALSE]},
                     name_maps |-> IF result # OK THEN name_maps
                                   ELSE name_maps \cup
                                          {[id |-> NewNameId(name_maps), location_id |-> id,
                                            name |-> name, is_primary |-> TRUE]}]
                  kept == InsertLocationPersist([locations |-> locations, name_maps |-> name_maps],
                                                written, result # OK)
              IN  /\ Cardinality(locations) < MaxLocations
                  /\ FreeNameIds(name_maps) # {}
                  /\ err' = result
                  /\ locations' = kept.locations
                  /\ name_maps' = kept.name_maps

InsertLocation(geoLevelName, name) == InsertLocationTx(geoLevelName, name, "none")

\* faulty variant of DeleteLocationRelations: only the parent side is deleted
DeleteLocationRelationsAsParent(rels, id) == {r \in rels : r.parent_id # id}

\* the three soft deletes of DeleteLocation
DeleteLocationNames(rows, id) == {n \in rows : n.location_id # id}

DeleteLocationRelations(rels, id) == {r \in rels : r.parent_id # id /\ r.child_id # id}

DeleteLocationRow(locs, id) ==
    {IF l.id = id THEN [l EXCEPT !.deleted = TRUE] ELSE l : l \in locs}

DeleteLocation(id) ==
    /\ UNCHANGED geo_levels
    /\ IF ~LocationExists(id)
         THEN err' = ErrLocationNotFound /\ UNCHANGED <<locations, name_maps, relations>>
         ELSE /\ err' = OK
              /\ name_maps' = DeleteLocationNames(name_maps, id)
              /\ relations' = DeleteLocationRelations(relations, id)
              /\ locations' = DeleteLocationRow(locations, id)

\* Store.UpdateLocation: its body is not part of the sources at hand (only
\* a stub, its caller and its tests are); taken from the description of
\* update(id, newName?, newLevelName?)
UpdateLocation(id, geoLevelName, name) ==
    /\ UNCHANGED <<geo_levels, relations>>
    /\ IF ~LocationExists(id)
         THEN err' = ErrLocationNotFound /\ UNCHANGED <<locations, name_maps>>
       ELSE IF name = ""
         THEN err' = ErrNameRequired /\ UNCHANGED <<locations, name_maps>>
       ELSE IF geoLevelName # NoArg /\ LevelByName(ToUpper(geoLevelName)) = {}
         THEN err' = ErrGeoLevelNotExist /\ UNCHANGED <<locations, name_maps>>
       ELSE /\ err' = OK
            /\ name_maps' =
                 IF name = NoArg THEN name_maps
                 ELSE {IF n.location_id = id /\ n.is_primary
                         THEN [n EXCEPT !.name = name] ELSE n : n \in name_maps}
            /\ IF geoLevelName = NoArg
                 THEN UNCHANGED locations
                 ELSE \E geoLevel \in LevelByName(ToUpper(geoLevelName)) :
                        locations' = {IF l.id = id THEN [l EXCEPT !.geo_level_id = geoLevel.id]
                                      ELSE l : l \in locations}

\* ------------------------------------------------------- geo level store
\* the unique constraint on geo_levels.name spans soft-deleted rows too
NameTaken(rows, name, exceptId) == \E g \in rows : g.name = name /\ g.id # exceptId

\* faulty variant of InsertGeoLevel: the name is compared and stored as given
InsertGeoLevelAsGiven(name, rank) ==
    /\ UNCHANGED <<locations, name_maps, relations>>
    /\ IF name = ""
         THEN err' = ErrGeoLevelNameRequired /\ UNCHANGED geo_levels
       ELSE IF LevelByName(name) # {}
         THEN err' = ErrGeoLevelAlreadyExists /\ UNCHANGED geo_levels
       ELSE IF NameTaken(geo_levels, name, 0)
         THEN err' = ErrDatabase /\ UNCHANGED geo_levels
       ELSE /\ Cardinality(geo_levels) < MaxLevels
            /\ err' = OK
            /\ geo_levels' = geo_levels \cup
                 {[id |-> NewLevelId, name |-> name, rank |-> rank, deleted |-> FALSE]}

InsertGeoLevel(name, rank) ==
    /\ UNCHANGED <<locations, name_maps, relations>>
    /\ IF name = ""
         THEN err' = ErrGeoLevelNameRequired /\ UNCHANGED geo_levels
       ELSE IF LevelByName(ToUpper(name)) # {}
         THEN err' = ErrGeoLevelAlreadyExists /\ UNCHANGED geo_levels
       ELSE IF NameTaken(geo_levels, ToUpper(name), 0)
         THEN err' = ErrDatabase /\ UNCHANGED geo_levels
       ELSE /\ Cardinality(geo_levels) < MaxLevels
            /\ err' = OK
            /\ geo_levels' = geo_levels \cup
                 {[id |-> NewLevelId, name |-> ToUpper(name), rank |-> rank, deleted |-> FALSE]}

\* faulty variant of UpdateGeoLevel: the rank is overwritten also when none is given
UpdateGeoLevelOverwriting(name, newName, newRank) ==
    /\ UNCHANGED <<locations, name_maps, relations>>
    /\ IF name = ""
         THEN err' = ErrGeoLevelNameRequired /\ UNCHANGED geo_levels
       ELSE IF newName = ""
         THEN err' = ErrGeoLevelNameRequired /\ UNCHANGED geo_levels
       ELSE IF LevelByName(ToUpper(name)) = {}
         THEN err' = ErrGeoLevelNotFound /\ UNCHANGED geo_levels
       ELSE \E geoLevel \in LevelByName(ToUpper(name)) :
              LET rename == newName # NoArg /\ ToUpper(newName) # ToUpper(name)
                  saved == [geoLevel EXCEPT
                              !.name = IF rename THEN ToUpper(newName) ELSE @,
                              !.rank = newRank]
              IN  IF rename /\ LevelByName(ToUpper(newName)) # {}
                    THEN err' = ErrGeoLevelAlreadyExists /\ UNCHANGED geo_levels
                  ELSE IF NameTaken(geo_levels, saved.name, geoLevel.id)
                    THEN err' = ErrDatabase /\ UNCHANGED geo_levels
                  ELSE /\ err' = OK
                       /\ geo_levels' = (geo_levels \ {geoLevel}) \cup {saved}

UpdateGeoLevel(name, newName, newRank) ==
    /\ UNCHANGED <<locations, name_maps, relations>>
    /\ IF name = ""
         THEN err' = ErrGeoLevelNameRequired /\ UNCHANGED geo_levels
       ELSE IF newName = ""
         THEN err' = ErrGeoLevelNameRequired /\ UNCHANGED geo_levels
       ELSE IF LevelByName(ToUpper(name)) = {}
         THEN err' = ErrGeoLevelNotFound /\ UNCHANGED geo_levels
       ELSE \E geoLevel \in LevelByName(ToUpper(name)) :
              LET rename == newName # NoArg /\ ToUpper(newName) # ToUpper(name)
                  saved == [geoLevel EXCEPT
                              !.name = IF rename THEN ToUpper(newName) ELSE @,
                              !.rank = IF newRank # NoRank THEN newRank ELSE @]
              IN  IF rename /\ LevelByName(ToUpper(newName)) # {}
                    THEN err' = ErrGeoLevelAlreadyExists /\ UNCHANGED geo_levels
                  ELSE IF NameTaken(geo_levels, saved.name, geoLevel.id)
                    THEN err' = ErrDatabase /\ UNCHANGED geo_levels
                  ELSE /\ err' = OK
                       /\ geo_levels' = (geo_levels \ {geoLevel}) \cup {saved}

\* faulty variant of DeleteGeoLevel: the level is deleted without the in-use count
DeleteGeoLevelUnchecked(name) ==
    /\ UNCHANGED <<locations, name_maps, relations>>
    /\ IF name = ""
         THEN err' = ErrGeoLevelNameRequired /\ UNCHANGED geo_levels
       ELSE IF LevelByName(ToUpper(name)) = {}
         THEN err' = ErrGeoLevelNotFound /\ UNCHANGED geo_levels
       ELSE \E geoLevel \in LevelByName(ToUpper(name)) :
              /\ err' = OK
              /\ geo_levels' = (geo_levels \ {geoLevel}) \cup {[geoLevel EXCEPT !.deleted = TRUE]}

DeleteGeoLevel(name) ==
    /\ UNCHANGED <<locations, name_maps, relations>>
    /\ IF name = ""
         THEN err' = ErrGeoLevelNameRequired /\ UNCHANGED geo_levels
       ELSE IF LevelByName(ToUpper(name)) = {}
         THEN err' = ErrGeoLevelNotFound /\ UNCHANGED geo_levels
       ELSE \E geoLevel \in LevelByName(ToUpper(name)) :
              IF \E l \in LiveLocations : l.geo_level_id = geoLevel.id
                THEN err' = ErrGeoLevelInUse /\ UNCHANGED geo_levels
                ELSE /\ err' = OK
                     /\ geo_levels' = (geo_levels \ {geoLevel}) \cup {[geoLevel EXCEPT !.deleted = TRUE]}

\* ------------------------------------------------------- relation store
\* faulty variant of BeforeCreate: equal ranks pass (> in place of >=)
BeforeCreateStrictlyGreater(rels, parentID, childID) ==
    IF ~LocationExists(parentID) THEN ErrLocationNotFound
    ELSE IF ~LocationExists(childID) THEN ErrLocationNotFound
    ELSE LET parent == LocationOf(parentID)
             child == LocationOf(childID)
             parentRank == LevelOf(parent.geo_level_id).rank
             childRank == LevelOf(child.geo_level_id).rank
         IN  IF parentRank # NoRank /\ childRank # NoRank /\ parentRank > childRank
               THEN ErrInvalidHierarchy
             ELSE IF \E r \in rels : /\ r.child_id = childID
                                     /\ \E l \in locations : /\ l.id = r.parent_id
                                                             /\ l.geo_level_id = parent.geo_level_id
               THEN ErrDuplicateRelation
             ELSE OK

\* faulty variant of BeforeCreate: the count of parents at the level is left out
BeforeCreateNoCount(rels, parentID, childID) ==
    IF ~LocationExists(parentID) THEN ErrLocationNotFound
    ELSE IF ~LocationExists(childID) THEN ErrLocationNotFound
    ELSE LET parent == LocationOf(parentID)
             child == LocationOf(childID)
             parentRank == LevelOf(parent.geo_level_id).rank
             childRank == LevelOf(child.geo_level_id).rank
         IN  IF parentRank # NoRank /\ childRank # NoRank /\ parentRank >= childRank
               THEN ErrInvalidHierarchy
             ELSE OK

\* faulty variant of BeforeCreate: the parents at the level are counted
\* before the ranks are compared
BeforeCreateCountFirst(rels, parentID, childID) ==
    IF ~LocationExists(parentID) THEN ErrLocationNotFound
    ELSE IF ~LocationExists(childID) THEN ErrLocationNotFound
    ELSE LET parent == LocationOf(parentID)
             child == LocationOf(childID)
             parentRank == LevelOf(parent.geo_level_id).rank
             childRank == LevelOf(child.geo_level_id).rank
         IN  IF \E r \in rels : /\ r.child_id = childID
                                /\ \E l \in locations : /\ l.id = r.parent_id
                                                        /\ l.geo_level_id = parent.geo_level_id
               THEN ErrDuplicateRelation
             ELSE IF parentRank # NoRank /\ childRank # NoRank /\ parentRank >= childRank
               THEN ErrInvalidHierarchy
             ELSE OK

\* Relation.BeforeCreate: both ends exist, ranks ordered, and the child has
\* no relation yet whose parent row carries the level of the new parent
BeforeCreate(rels, parentID, childID) ==
    IF ~LocationExists(parentID) THEN ErrLocationNotFound
    ELSE IF ~LocationExists(childID) THEN ErrLocationNotFound
    ELSE LET parent == LocationOf(parentID)
             child == LocationOf(childID)
             parentRank == LevelOf(parent.geo_level_id).rank
             childRank == LevelOf(child.geo_level_id).rank
         IN  IF parentRank # NoRank /\ childRank # NoRank /\ parentRank >= childRank
               THEN ErrInvalidHierarchy
             ELSE IF \E r \in rels : /\ r.child_id = childID
                                     /\ \E l \in locations : /\ l.id = r.parent_id
                                                             /\ l.geo_level_id = parent.geo_level_id
               THEN ErrDuplicateRelation
             ELSE OK

\* faulty variant of InsertRelationOn: parent and child are not compared
InsertRelationOnUncompared(rels, parentLocationID, childLocationID) ==
    LET hook == BeforeCreate(rels, parentLocationID, childLocationID)
    IN  IF hook # OK
          THEN [err |-> hook, rels |-> rels]
          ELSE [err |-> OK,
                rels |-> rels \cup {[parent_id |-> parentLocationID, child_id |-> childLocationID]}]

\* Store.InsertRelation on a relations table: the error and the table after
InsertRelationOn(rels, parentLocationID, childLocationID) ==
    IF parentLocationID = childLocationID
      THEN [err |-> ErrSelfRelation, rels |-> rels]
    ELSE LET hook == BeforeCreate(rels, parentLocationID, childLocationID)
         IN  IF hook # OK
               THEN [err |-> hook, rels |-> rels]
               ELSE [err |-> OK,
                     rels |-> rels \cup {[parent_id |-> parentLocationID, child_id |-> childLocationID]}]

InsertRelation(parentLocationID, childLocationID) ==
    /\ UNCHANGED <<geo_levels, locations, name_maps>>
    /\ LET res == InsertRelationOn(relations, parentLocationID, childLocationID)
       IN  err' = res.err /\ relations' = res.rels

\* faulty variant of DeleteAllRelations: the relations of the location's
\* children with their other parents are deleted as well
DeleteAllRelationsOfChildren(locationID) ==
    /\ UNCHANGED <<geo_levels, locations, name_maps>>
    /\ err' = OK
    /\ relations' = {r \in relations :
                       /\ r.parent_id # locationID /\ r.child_id # locationID
                       /\ [parent_id |-> locationID, child_id |-> r.child_id] \notin relations}

\* Store.DeleteAllRelations: one DELETE over parent_id = ? OR child_id = ?
DeleteAllRelations(locationID) ==
    /\ UNCHANGED <<geo_levels, locations, name_maps>>
    /\ err' = OK
    /\ relations' = {r \in relations : r.parent_id # locationID /\ r.child_id # locationID}

\* ---------------------------------------------------------------- facade
AddAliasToLocation(geoID, name) ==
    IF ~uuidFromString(geoID).ok
      THEN err' = ErrInvalidUUID /\ UNCHANGED <<geo_levels, locations, name_maps, relations>>
      ELSE InsertNameMap(uuidFromString(geoID).id, name, FALSE)

RemoveAlias(geoID, name) ==
    IF ~uuidFromString(geoID).ok
      THEN err' = ErrInvalidUUID /\ UNCHANGED <<geo_levels, locations, name_maps, relations>>
      ELSE DeleteNameMap(uuidFromString(geoID).id, name)

\* what AddParent returns and the relations it leaves
AddParentResult(geoID, parentGeoID) ==
    IF ~uuidFromString(geoID).ok \/ ~uuidFromString(parentGeoID).ok
      THEN [err |-> ErrInvalidUUID, rels |-> relations]
      ELSE InsertRelationOn(relations, uuidFromString(parentGeoID).id, uuidFromString(geoID).id)

AddParent(geoID, parentGeoID) ==
    /\ UNCHANGED <<geo_levels, locations, name_maps>>
    /\ err' = AddParentResult(geoID, parentGeoID).err
    /\ relations' = AddParentResult(geoID, parentGeoID).rels

\* the loop of AddChildren inside its transaction: the first error stops it
RECURSIVE AddChildrenLoop(_, _, _)
AddChildrenLoop(rels, parentID, childGeoIDs) ==
    IF childGeoIDs = <<>> THEN [err |-> OK, rels |-> rels]
    ELSE IF ~uuidFromString(Head(childGeoIDs)).ok THEN [err |-> ErrInvalidUUID, rels |-> rels]
    ELSE LET res == InsertRelationOn(rels, parentID, uuidFromString(Head(childGeoIDs)).id)
         IN  IF res.err # OK THEN res
             ELSE AddChildrenLoop(res.rels, parentID, Tail(childGeoIDs))

\* faulty variant of AddChildrenCommit: the loop's rows stay after an error
AddChildrenNoRollback(before, res) == res.rels

\* what AddChildren leaves in the table: the loop's rows on Commit, the rows
\* of before on Rollback
AddChildrenCommit(before, res) == IF res.err = OK THEN res.rels ELSE before

\* what AddChildren returns and the relations it leaves
AddChildrenResult(geoID, childGeoIDs) ==
    IF ~uuidFromString(geoID).ok
      THEN [err |-> ErrInvalidUUID, rels |-> relations]
      ELSE LET res == AddChildrenLoop(relations, uuidFromString(geoID).id, childGeoIDs)
           IN  [err |-> res.err, rels |-> AddChildrenCommit(relations, res)]

AddChildren(geoID, childGeoIDs) ==
    /\ UNCHANGED <<geo_levels, locations, name_maps>>
    /\ err' = AddChildrenResult(geoID, childGeoIDs).err
    /\ relations' = AddChildrenResult(geoID, childGeoIDs).rels

\* faulty variant of RemoveParentOutcomes: a relation in either direction is matched
RemoveParentEitherDirection(rels, geoID, parentGeoID) ==
    IF ~uuidFromString(geoID).ok \/ ~uuidFromString(parentGeoID).ok
      THEN {[err |-> ErrInvalidUUID, rels |-> rels]}
      ELSE LET childID == uuidFromString(geoID).id
               parentID == uuidFromString(parentGeoID).id
               found == {r \in rels :
                           \/ r.child_id = childID /\ r.parent_id = parentID
                           \/ r.child_id = parentID /\ r.parent_id = childID}
           IN  IF found = {}
                 THEN {[err |-> ErrParentChildNotFound, rels |-> rels]}
                 ELSE {[err |-> OK, rels |-> rels \ {rel}] : rel \in found}

\* the possible results of RemoveParent on the relations rels
RemoveParentOutcomes(rels, geoID, parentGeoID) ==
    IF ~uuidFromString(geoID).ok \/ ~uuidFromString(parentGeoID).ok
      THEN {[err |-> ErrInvalidUUID, rels |-> rels]}
      ELSE LET childID == uuidFromString(geoID).id
               parentID == uuidFromString(parentGeoID).id
               found == {r \in rels : r.child_id = childID /\ r.parent_id = parentID}
           IN  IF found = {}
                 THEN {[err |-> ErrParentChildNotFound, rels |-> rels]}
                 ELSE {[err |-> OK, rels |-> rels \ {rel}] : rel \in found}

RemoveParent(geoID, parentGeoID) ==
    /\ UNCHANGED <<geo_levels, locations, name_maps>>
    /\ \E out \in RemoveParentOutcomes(relations, geoID, parentGeoID) :
          err' = out.err /\ relations' = out.rels

\* the result of RemoveChildren on the relations rels: slices.Contains compares
\* the strings of the list with the printed child ids
RemoveChildrenResult(rels, geoID, childGeoIDs) ==
    IF ~uuidFromString(geoID).ok
      THEN [err |-> ErrInvalidUUID, rels |-> rels]
      ELSE LET parentID == uuidFromString(geoID).id
               listed == {childGeoIDs[i] : i \in 1..Len(childGeoIDs)}
           IN  [err |-> OK,
                rels |-> {r \in rels : ~(r.parent_id = parentID /\ uuidString(r.child_id) \in listed)}]

RemoveChildren(geoID, childGeoIDs) ==
    /\ UNCHANGED <<geo_levels, locations, name_maps>>
    /\ err' = RemoveChildrenResult(relations, geoID, childGeoIDs).err
    /\ relations' = RemoveChildrenResult(relations, geoID, childGeoIDs).rels

\* ---------------------------------------------------------------- reads
\* the number of non-primary rows of a location per text
AliasCount(loc, text) == Cardinality({n \in NamedRows(name_maps, loc, text) : ~n.is_primary})

\* Store.GetLocation: the location with its level name, primary name and aliases
StoreGetLocation(id) ==
    IF ~LocationExists(id) THEN [err |-> ErrLocationNotFound, loc |-> NoArg]
    ELSE [err |-> OK,
          loc |-> [geo_id |-> id,
                   geo_level |-> LevelOf(LocationOf(id).geo_level_id).name,
                   name |-> IF PrimaryRows(name_maps, id) = {} THEN ""
                            ELSE (CHOOSE n \in PrimaryRows(name_maps, id) : TRUE).name,
                   aliases |-> [text \in TextInputs |-> AliasCount(id, text)]]]

\* ServiceOnPostgres.GetLocation
GetLocationResult(geoID) ==
    IF ~uuidFromString(geoID).ok THEN [err |-> ErrInvalidUUID, loc |-> NoArg]
    ELSE StoreGetLocation(uuidFromString(geoID).id)

\* faulty variant of GetLocationsLoop: an id that fails is skipped
RECURSIVE GetLocationsSkipping(_, _)
GetLocationsSkipping(geoIDs, found) ==
    IF geoIDs = <<>> THEN [err |-> OK, locations |-> found]
    ELSE LET res == GetLocationResult(Head(geoIDs))
         IN  IF res.err # OK THEN GetLocationsSkipping(Tail(geoIDs), found)
             ELSE GetLocationsSkipping(Tail(geoIDs), Append(found, res.loc))

\* the loop of GetLocations: the first error ends it and nothing is returned
RECURSIVE GetLocationsLoop(_, _)
GetLocationsLoop(geoIDs, found) ==
    IF geoIDs = <<>> THEN [err |-> OK, locations |-> found]
    ELSE LET res == GetLocationResult(Head(geoIDs))
         IN  IF res.err # OK THEN [err |-> res.err, locations |-> <<>>]
             ELSE GetLocationsLoop(Tail(geoIDs), Append(found, res.loc))

GetLocationsResult(geoIDs) == GetLocationsLoop(geoIDs, <<>>)

\* what GetLocations hands back: `var locations []Location` grown by append,
\* so the slice is nil unless something was appended; nil on an error
GetLocationsReturned(geoIDs) ==
    LET res == GetLocationsResult(geoIDs)
    IN  [err |-> res.err, nil |-> res.locations = <<>>, locations |-> res.locations]

GetLocations(geoIDs) ==
    /\ UNCHANGED <<geo_levels, locations, name_maps, relations>>
    /\ err' = GetLocationsResult(geoIDs).err

\* ------------------------------------------------------- relation reads
\* the facade's Location value of a live location: id as printed, level
\* name, primary name and aliases
LocationView(id) ==
    [geo_id |-> uuidString(id),
     geo_level |-> LevelOf(LocationOf(id).geo_level_id).name,
     name |-> IF PrimaryRows(name_maps, id) = {} THEN ""
              ELSE (CHOOSE n \in PrimaryRows(name_maps, id) : TRUE).name,
     aliases |-> [text \in TextInputs |-> AliasCount(id, text)]]

\* Store.GetParents / Store.GetChildren: the live relations of a child / parent
GetParents(childID) == {r \in relations : r.child_id = childID}

GetChildren(parentID) == {r \in relations : r.parent_id = parentID}

\* a slice built by append from a nil slice: nil when nothing was appended
Appended(items) == [nil |-> items = {}, items |-> items]

NilList == [nil |-> TRUE, items |-> {}]

\* faulty variant of GetAllParentsResult: parents of parents are returned too
GetAllParentsTransitive(geoID) ==
    IF ~uuidFromString(geoID).ok THEN [err |-> ErrInvalidUUID, list |-> NilList]
    ELSE LET near == {r.parent_id : r \in GetParents(uuidFromString(geoID).id)}
             far == {r.parent_id : r \in {q \in relations : q.child_id \in near}}
         IN  [err |-> OK,
              list |-> Appended({LocationView(p) : p \in {q \in near \cup far : LocationExists(q)}})]

\* ServiceOnPostgres.GetAllParents: a relation whose parent did not load is skipped
GetAllParentsResult(geoID) ==
    IF ~uuidFromString(geoID).ok THEN [err |-> ErrInvalidUUID, list |-> NilList]
    ELSE [err |-> OK,
          list |-> Appended({LocationView(r.parent_id) :
                               r \in {q \in GetParents(uuidFromString(geoID).id) : LocationExists(q.parent_id)}})]

\* ServiceOnPostgres.GetAllChildren: a relation whose child did not load is skipped
GetAllChildrenResult(geoID) ==
    IF ~uuidFromString(geoID).ok THEN [err |-> ErrInvalidUUID, list |-> NilList]
    ELSE [err |-> OK,
          list |-> Appended({LocationView(r.child_id) :
                               r \in {q \in GetChildren(uuidFromString(geoID).id) : LocationExists(q.child_id)}})]

GetAllParents(geoID) ==
    /\ UNCHANGED <<geo_levels, locations, name_maps, relations>>
    /\ err' = GetAllParentsResult(geoID).err

GetAllChildren(geoID) ==
    /\ UNCHANGED <<geo_levels, locations, name_maps, relations>>
    /\ err' = GetAllChildrenResult(geoID).err

\* the Location value the level reads return: no names are loaded
LevelView(id) ==
    [geo_id |-> uuidString(id),
     geo_level |-> LevelOf(LocationOf(id).geo_level_id).name,
     name |-> "",
     aliases |-> [text \in TextInputs |-> 0]]

\* the parents / children of id that loaded and whose level name is geoLevel, as given
ParentsAtLevel(id, geoLevel) ==
    {r.parent_id : r \in {q \in GetParents(id) :
        LocationExists(q.parent_id) /\ LevelOf(LocationOf(q.parent_id).geo_level_id).name = geoLevel}}

ChildrenAtLevel(id, geoLevel) ==
    {r.child_id : r \in {q \in GetChildren(id) :
        LocationExists(q.child_id) /\ LevelOf(LocationOf(q.child_id).geo_level_id).name = geoLevel}}

\* faulty variant of GetParentAtLevelOutcomes: the parents of the parents are searched too
GetParentAtLevelClimbing(geoID, geoLevel) ==
    IF ~uuidFromString(geoID).ok THEN {[err |-> ErrInvalidUUID, loc |-> NoArg]}
    ELSE LET id == uuidFromString(geoID).id
             near == ParentsAtLevel(id, geoLevel)
             far == UNION {ParentsAtLevel(r.parent_id, geoLevel) : r \in GetParents(id)}
         IN  IF near \cup far = {} THEN {[err |-> ErrParentAtLevelNotFound, loc |-> NoArg]}
             ELSE {[err |-> OK, loc |-> LevelView(p)] : p \in near \cup far}

\* ServiceOnPostgres.GetParentAtLevel: the first matching relation in the
\* order the store lists them, which the query leaves open
GetParentAtLevelOutcomes(geoID, geoLevel) ==
    IF ~uuidFromString(geoID).ok THEN {[err |-> ErrInvalidUUID, loc |-> NoArg]}
    ELSE LET found == ParentsAtLevel(uuidFromString(geoID).id, geoLevel)
         IN  IF found = {} THEN {[err |-> ErrParentAtLevelNotFound, loc |-> NoArg]}
             ELSE {[err |-> OK, loc |-> LevelView(p)] : p \in found}

\* ServiceOnPostgres.GetChildrenAtLevel
GetChildrenAtLevelResult(geoID, geoLevel) ==
    IF ~uuidFromString(geoID).ok THEN [err |-> ErrInvalidUUID, list |-> NilList]
    ELSE [err |-> OK,
          list |-> Appended({LevelView(c) : c \in ChildrenAtLevel(uuidFromString(geoID).id, geoLevel)})]

GetParentAtLevel(geoID, geoLevel) ==
    /\ UNCHANGED <<geo_levels, locations, name_maps, relations>>
    /\ \E out \in GetParentAtLevelOutcomes(geoID, geoLevel) : err' = out.err

GetChildrenAtLevel(geoID, geoLevel) ==
    /\ UNCHANGED <<geo_levels, locations, name_maps, relations>>
    /\ err' = GetChildrenAtLevelResult(geoID, geoLevel).err

\* ------------------------------------------------- order of facade steps
\* The calls a facade operation makes, in the order of its code, up to its
\* return: "uuidFromString" for a parse, the name of the store method or of
\* the transaction call otherwise.
AddLocationSteps(geoID, geoLevel, name) == <<"InsertLocation">>

AddAliasToLocationSteps(geoID, name) ==
    IF ~uuidFromString(geoID).ok THEN <<"uuidFromString">>
    ELSE <<"uuidFromString", "Begin", "InsertNameMap">> \o
         (IF InsertNameMapOn(name_maps, uuidFromString(geoID).id, name, FALSE).err # OK
            THEN <<"Rollback">> ELSE <<"Commit">>)

AddParentSteps(geoID, parentGeoID) ==
    IF ~uuidFromString(geoID).ok THEN <<"uuidFromString">>
    ELSE IF ~uuidFromString(parentGeoID).ok THEN <<"uuidFromString", "uuidFromString">>
    ELSE <<"uuidFromString", "uuidFromString", "Begin", "InsertRelation">> \o
         (IF AddParentResult(geoID, parentGeoID).err # OK THEN <<"Rollback">> ELSE <<"Commit">>)

RECURSIVE AddChildrenLoopSteps(_, _, _)
AddChildrenLoopSteps(rels, parentID, childGeoIDs) ==
    IF childGeoIDs = <<>> THEN <<"Commit">>
    ELSE IF ~uuidFromString(Head(childGeoIDs)).ok THEN <<"uuidFromString", "Rollback">>
    ELSE LET res == InsertRelationOn(rels, parentID, uuidFromString(Head(childGeoIDs)).id)
         IN  <<"uuidFromString", "InsertRelation">> \o
             (IF res.err # OK THEN <<"Rollback">>
              ELSE AddChildrenLoopSteps(res.rels, parentID, Tail(childGeoIDs)))

AddChildrenSteps(geoID, childGeoIDs) ==
    IF ~uuidFromString(geoID).ok THEN <<"uuidFromString">>
    ELSE <<"uuidFromString", "Begin">> \o
         AddChildrenLoopSteps(relations, uuidFromString(geoID).id, childGeoIDs)

RemoveParentSteps(geoID, parentGeoID) ==
    IF ~uuidFromString(geoID).ok THEN <<"uuidFromString">>
    ELSE IF ~uuidFromString(parentGeoID).ok THEN <<"uuidFromString", "GetParents", "uuidFromString">>
    ELSE <<"uuidFromString", "GetParents", "uuidFromString", "Begin">> \o
         (IF \E r \in GetParents(uuidFromString(geoID).id) : r.parent_id = uuidFromString(parentGeoID).id
            THEN <<"DeleteRelation", "Commit">> ELSE <<"Rollback">>)

RemoveChildrenSteps(geoID, childGeoIDs) ==
    IF ~uuidFromString(geoID).ok THEN <<"uuidFromString">>
    ELSE <<"uuidFromString", "GetChildren", "Begin">> \o
         [i \in 1..Cardinality(relations \ RemoveChildrenResult(relations, geoID, childGeoIDs).rels)
            |-> "DeleteRelation"] \o <<"Commit">>

RECURSIVE GetLocationsSteps(_)
GetLocationsSteps(geoIDs) ==
    IF geoIDs = <<>> THEN <<>>
    ELSE IF ~uuidFromString(Head(geoIDs)).ok THEN <<"uuidFromString">>
    ELSE <<"uuidFromString", "GetLocation">> \o
         (IF GetLocationResult(Head(geoIDs)).err # OK THEN <<>> ELSE GetLocationsSteps(Tail(geoIDs)))

\* the steps of the facade reads and of DeleteLocation, which parse their one id first
OneIdSteps(geoID, storeCall) ==
    IF ~uuidFromString(geoID).ok THEN <<"uuidFromString">> ELSE <<"uuidFromString", storeCall>>

\* ------------------------------------------ transactions and interruption
\* the tables that the operations on locations write
Db == [locations |-> locations, name_maps |-> name_maps, relations |-> relations]

\* what stops a statement: the database refusing it, or the caller's context
\* being cancelled or past its deadline
Causes == {ErrDatabase, ErrContext}

\* faulty variant of Transaction: what was written stays after an error
TransactionNoRollback(before, written, failed) == written

\* a transaction (gorm's Transaction, or the facade's Begin with Rollback on
\* every error path and Commit at the end): the written tables when its
\* function returned nil, the tables of before when it returned an error
Transaction(before, written, failed) == IF failed THEN before ELSE written

\* A run of an operation is the error it ends with by itself (nil when it
\* meets none) and the tables after each of the write statements it issues
\* before that, in turn.
LastOf(before, seq) == IF seq = <<>> THEN before ELSE seq[Len(seq)]

\* The result of a run in which `cause` strikes at step `at`: steps
\* 1..Len(run.seq) are the write statements, the step after them is the
\* Commit. Every statement is issued with the caller's context, so either
\* cause stops it; the Commit fails on a database error, and on a cancelled
\* context only when the transaction itself is bound to the context (the store
\* methods begin theirs with WithContext(ctx), the facade with a bare Begin()).
\* No step is struck when the run has no such step.
TxOutcome(before, run, at, cause, bound) ==
    LET written == LastOf(before, run.seq)
        struck == \/ at \in 1..Len(run.seq)
                  \/ at = Len(run.seq) + 1 /\ run.err = OK /\ (cause = ErrDatabase \/ bound)
    IN  IF struck THEN [err |-> cause, db |-> Transaction(before, written, TRUE)]
        ELSE [err |-> run.err, db |-> Transaction(before, written, run.err # OK)]

\* Store.InsertLocation: Create of the location, Create of its primary name
InsertLocationRuns(db, geoLevelName, name) ==
    IF name = "" THEN {[err |-> ErrNameRequired, seq |-> <<>>]}
    ELSE IF LevelByName(ToUpper(geoLevelName)) = {} THEN {[err |-> ErrGeoLevelNotExist, seq |-> <<>>]}
    ELSE {LET id == Cardinality(db.locations) + 1
              location == [db EXCEPT !.locations =
                             @ \cup {[id |-> id, geo_level_id |-> geoLevel.id, deleted |-> FALSE]}]
              nameMap == [location EXCEPT !.name_maps =
                            @ \cup {[id |-> NewNameId(db.name_maps), location_id |-> id,
                                     name |-> name, is_primary |-> TRUE]}]
          IN  [err |-> OK, seq |-> <<location, nameMap>>] :
          geoLevel \in LevelByName(ToUpper(geoLevelName))}

\* Store.InsertNameMap: the Update that demotes (when a primary is added
\* next to one), then the Create
InsertNameMapRuns(db, locationID, name, isPrimary) ==
    LET rows == db.name_maps
        check == InsertNameMapCheck(rows, locationID, name)
        demoted == InsertNameMapDemoted(rows, locationID, isPrimary)
        created == demoted \cup {[id |-> NewNameId(rows), location_id |-> locationID,
                                  name |-> name, is_primary |-> isPrimary]}
    IN  IF check # OK THEN {[err |-> check, seq |-> <<>>]}
        ELSE {[err |-> OK,
               seq |-> (IF isPrimary /\ PrimaryRows(rows, locationID) # {}
                          THEN <<[db EXCEPT !.name_maps = demoted]>> ELSE <<>>)
                       \o <<[db EXCEPT !.name_maps = created]>>]}

\* Store.SetPrimaryName: the Update that demotes, then the Create or the Save
SetPrimaryNameRuns(db, locationID, name) ==
    LET rows == db.name_maps
        demoted == Demote(rows, locationID)
    IN  IF name = "" THEN {[err |-> ErrNameRequired, seq |-> <<>>]}
        ELSE IF ~LocationExists(locationID) THEN {[err |-> ErrLocationNotFound, seq |-> <<>>]}
        ELSE IF NamedRows(rows, locationID, name) = {}
          THEN {[err |-> OK,
                 seq |-> <<[db EXCEPT !.name_maps = demoted],
                           [db EXCEPT !.name_maps =
                              demoted \cup {[id |-> NewNameId(rows), location_id |-> locationID,
                                             name |-> name, is_primary |-> TRUE]}]>>]}
        ELSE {IF nameMap.is_primary THEN [err |-> OK, seq |-> <<>>]
              ELSE [err |-> OK,
                    seq |-> <<[db EXCEPT !.name_maps = demoted],
                              [db EXCEPT !.name_maps =
                                 (demoted \ {nameMap}) \cup {[nameMap EXCEPT !.is_primary = TRUE]}]>>] :
              nameMap \in NamedRows(rows, locationID, name)}

\* Store.DeleteLocation: Delete of the names, of the relations, of the location
DeleteLocationRuns(db, id) ==
    IF ~LocationExists(id) THEN {[err |-> ErrLocationNotFound, seq |-> <<>>]}
    ELSE LET names == [db EXCEPT !.name_maps = DeleteLocationNames(@, id)]
             rels == [names EXCEPT !.relations = DeleteLocationRelations(@, id)]
             row == [rels EXCEPT !.locations = DeleteLocationRow(@, id)]
         IN  {[err |-> OK, seq |-> <<names, rels, row>>]}

\* ServiceOnPostgres.AddChildren: one InsertRelation per list entry
RECURSIVE AddChildrenRun(_, _, _, _)
AddChildrenRun(db, parentID, childGeoIDs, seq) ==
    IF childGeoIDs = <<>> THEN [err |-> OK, seq |-> seq]
    ELSE IF ~uuidFromString(Head(childGeoIDs)).ok THEN [err |-> ErrInvalidUUID, seq |-> seq]
    ELSE LET now == LastOf(db, seq)
             res == InsertRelationOn(now.relations, parentID, uuidFromString(Head(childGeoIDs)).id)
         IN  IF res.err # OK THEN [err |-> res.err, seq |-> seq]
             ELSE AddChildrenRun(db, parentID, Tail(childGeoIDs),
                                 Append(seq, [now EXCEPT !.relations = res.rels]))

AddChildrenRuns(db, geoID, childGeoIDs) ==
    IF ~uuidFromString(geoID).ok THEN {[err |-> ErrInvalidUUID, seq |-> <<>>]}
    ELSE {AddChildrenRun(db, uuidFromString(geoID).id, childGeoIDs, <<>>)}

\* ServiceOnPostgres.RemoveChildren: one DeleteRelation per matched relation,
\* taken here in the order of the child ids
RECURSIVE RemoveChildrenRun(_, _, _)
RemoveChildrenRun(db, matched, seq) ==
    IF matched = {} THEN [err |-> OK, seq |-> seq]
    ELSE LET rel == CHOOSE r \in matched : \A q \in matched : r.child_id <= q.child_id
             now == LastOf(db, seq)
         IN  RemoveChildrenRun(db, matched \ {rel},
                               Append(seq, [now EXCEPT !.relations = @ \ {rel}]))

RemoveChildrenRuns(db, geoID, childGeoIDs) ==
    IF ~uuidFromString(geoID).ok THEN {[err |-> ErrInvalidUUID, seq |-> <<>>]}
    ELSE {RemoveChildrenRun(db, db.relations \ RemoveChildrenResult(db.relations, geoID, childGeoIDs).rels,
                            <<>>)}

\* a step of the state machine that ends with the outcome out
Returns(out) ==
    /\ UNCHANGED geo_levels
    /\ err' = out.err
    /\ locations' = out.db.locations
    /\ name_maps' = out.db.name_maps
    /\ relations' = out.db.relations

InsertLocationAt(geoLevelName, name, at, cause) ==
    /\ Cardinality(locations) < MaxLocations
    /\ FreeNameIds(name_maps) # {}
    /\ \E run \in InsertLocationRuns(Db, geoLevelName, name) : Returns(TxOutcome(Db, run, at, cause, TRUE))

InsertNameMapAt(locationID, name, isPrimary, at, cause) ==
    /\ FreeNameIds(name_maps) # {}
    /\ \E run \in InsertNameMapRuns(Db, locationID, name, isPrimary) : Returns(TxOutcome(Db, run, at, cause, TRUE))

SetPrimaryNameAt(locationID, name, at, cause) ==
    /\ FreeNameIds(name_maps) # {}
    /\ \E run \in SetPrimaryNameRuns(Db, locationID, name) : Returns(TxOutcome(Db, run, at, cause, TRUE))

DeleteLocationAt(id, at, cause) ==
    \E run \in DeleteLocationRuns(Db, id) : Returns(TxOutcome(Db, run, at, cause, TRUE))

AddChildrenAt(geoID, childGeoIDs, at, cause) ==
    \E run \in AddChildrenRuns(Db, geoID, childGeoIDs) : Returns(TxOutcome(Db, run, at, cause, FALSE))

RemoveChildrenAt(geoID, childGeoIDs, at, cause) ==
    \E run \in RemoveChildrenRuns(Db, geoID, childGeoIDs) : Returns(TxOutcome(Db, run, at, cause, FALSE))

\* ---------------------------------------------------- two callers at once
\* Two calls run at the same time, each in its own transaction. The store
\* fixes no isolation level and takes no explicit lock, so PostgreSQL runs
\* both at READ COMMITTED: a statement reads the committed rows and the rows
\* its own transaction has written; an UPDATE waits for the transaction that
\* holds one of its target rows and then takes up the committed row again,
\* changing it only if it still matches. A caller is a record of its
\* arguments, its position pc, the rows it has written and not yet committed,
\* and its error.

\* ServiceOnPostgres.AddParent, about to run Relation.BeforeCreate
RelationCaller(parentID, childID) ==
    [parent |-> parentID, child |-> childID, pc |-> "BeforeCreate", written |-> {}, err |-> OK]

\* one statement of an AddParent caller: the hook's reads, the INSERT, the Commit
AddParentStep(committed, c) ==
    CASE c.pc = "BeforeCreate" ->
           LET hook == IF c.parent = c.child THEN ErrSelfRelation
                       ELSE BeforeCreate(committed \cup c.written, c.parent, c.child)
           IN  [committed |-> committed,
                caller |-> IF hook # OK THEN [c EXCEPT !.pc = "done", !.err = hook]
                           ELSE [c EXCEPT !.pc = "Create"]]
      [] c.pc = "Create" ->
           [committed |-> committed,
            caller |-> [c EXCEPT !.pc = "Commit",
                                 !.written = {[parent_id |-> c.parent, child_id |-> c.child]}]]
      [] c.pc = "Commit" ->
           [committed |-> committed \cup c.written,
            caller |-> [c EXCEPT !.pc = "done", !.written = {}]]

\* the relations table and the two errors after every interleaving of the
\* statements of two AddParent callers
RECURSIVE AddParentRaces(_, _, _)
AddParentRaces(committed, c1, c2) ==
    IF c1.pc = "done" /\ c2.pc = "done"
      THEN {[rels |-> committed, errs |-> <<c1.err, c2.err>>]}
      ELSE (IF c1.pc = "done" THEN {}
            ELSE LET s == AddParentStep(committed, c1)
                 IN  AddParentRaces(s.committed, s.caller, c2))
           \cup
           (IF c2.pc = "done" THEN {}
            ELSE LET s == AddParentStep(committed, c2)
                 IN  AddParentRaces(s.committed, c1, s.caller))

\* AddParent(geoID, parent1) and AddParent(geoID, parent2) at the same time
AddParentTwice(geoID, parent1, parent2) ==
    /\ UNCHANGED <<geo_levels, locations, name_maps>>
    /\ \E out \in AddParentRaces(relations, RelationCaller(parent1, geoID), RelationCaller(parent2, geoID)) :
         /\ relations' = out.rels
         /\ \E k \in 1..2 : err' = out.errs[k]

\* the rows a transaction sees: the committed ones, its own versions over them
View(committed, written) ==
    {n \in committed : \A w \in written : w.id # n.id} \cup written

\* the rows a transaction holds locked until it ends
Locked(c) == {w.id : w \in c.written}

NameOps == {"SetPrimaryName", "InsertNameMap"}

\* Store.SetPrimaryName(locationID, name) or Store.InsertNameMap(locationID,
\* name, true), about to run its first read
NameCaller(op, locationID, name) ==
    [op |-> op, loc |-> locationID, name |-> name, pc |-> "First",
     written |-> {}, targets |-> {}, nameMap |-> {}, err |-> OK]

\* a row id for the INSERT of caller c, distinct from the other caller's
FreeForCreate(committed, c, other) ==
    NameRowIds \ {n.id : n \in committed \cup c.written \cup other.written}

\* whether caller c can run its next statement now
NameEnabled(committed, c, other) ==
    /\ c.pc # "done"
    /\ c.pc = "Wait" => c.targets \cap Locked(other) = {}
    /\ c.pc = "Save" => {n.id : n \in c.nameMap} \cap Locked(other) = {}
    /\ c.pc = "Create" => FreeForCreate(committed, c, other) # {}

\* the rows of the UPDATE that demotes: the target rows that (still) match
DemoteTargets(c, view, targets) ==
    {w \in c.written : w.id \notin targets} \cup
    {[n EXCEPT !.is_primary = FALSE] :
       n \in {m \in view : m.id \in targets /\ m.location_id = c.loc /\ m.is_primary}}

\* where a caller goes on after its demoting UPDATE
AfterDemote(c) == IF c.op = "SetPrimaryName" /\ c.nameMap # {} THEN "Save" ELSE "Hook"

\* one statement of a SetPrimaryName or InsertNameMap caller
NameStep(committed, c, other) ==
    LET view == View(committed, c.written)
        failed(e) == [c EXCEPT !.pc = "done", !.err = e, !.written = {}]
        named == NamedRows(view, c.loc, c.name)
        targets == {n.id : n \in PrimaryRows(view, c.loc)}
    IN  CASE c.pc = "First" ->
               [committed |-> committed,
                caller |->
                  IF ~LocationExists(c.loc) THEN failed(ErrLocationNotFound)
                  ELSE IF c.op = "InsertNameMap"
                    THEN IF named # {} THEN failed(ErrNameAlreadyExists) ELSE [c EXCEPT !.pc = "Count"]
                  ELSE IF named = {} THEN [c EXCEPT !.pc = "Demote"]
                  ELSE LET nameMap == CHOOSE n \in named : TRUE
                       IN  IF nameMap.is_primary THEN [c EXCEPT !.pc = "Commit"]
                           ELSE [c EXCEPT !.pc = "Demote", !.nameMap = {nameMap}]]
          [] c.pc = "Count" ->
               [committed |-> committed,
                caller |-> [c EXCEPT !.pc = IF targets # {} THEN "Demote" ELSE "Hook"]]
          [] c.pc = "Demote" ->
               [committed |-> committed,
                caller |-> IF targets \cap Locked(other) # {}
                             THEN [c EXCEPT !.pc = "Wait", !.targets = targets]
                             ELSE [c EXCEPT !.pc = AfterDemote(c),
                                            !.written = DemoteTargets(c, view, targets)]]
          [] c.pc = "Wait" ->
               [committed |-> committed,
                caller |-> [c EXCEPT !.pc = AfterDemote(c),
                                     !.written = DemoteTargets(c, view, c.targets)]]
          [] c.pc = "Hook" ->
               [committed |-> committed,
                caller |-> LET hook == NameMapBeforeCreate(view, c.loc, TRUE)
                           IN  IF hook # OK THEN failed(hook) ELSE [c EXCEPT !.pc = "Create"]]
          [] c.pc = "Create" ->
               [committed |-> committed,
                caller |->
                  LET free == FreeForCreate(committed, c, other)
                      id == CHOOSE i \in free : \A j \in free : i <= j
                  IN  [c EXCEPT !.pc = "Commit",
                                !.written = @ \cup {[id |-> id, location_id |-> c.loc,
                                                     name |-> c.name, is_primary |-> TRUE]}]]
          [] c.pc = "Save" ->
               [committed |-> committed,
                caller |-> [c EXCEPT !.pc = "Commit",
                                     !.written = {w \in @ : \A n \in c.nameMap : w.id # n.id}
                                                 \cup {[n EXCEPT !.is_primary = TRUE] : n \in c.nameMap}]]
          [] c.pc = "Commit" ->
               [committed |-> view,
                caller |-> [c EXCEPT !.pc = "done", !.written = {}]]

\* the name_maps table and the two errors after every interleaving of the
\* statements of two callers
RECURSIVE NameRaces(_, _, _)
NameRaces(committed, c1, c2) ==
    IF c1.pc = "done" /\ c2.pc = "done"
      THEN {[rows |-> committed, errs |-> <<c1.err, c2.err>>]}
      ELSE (IF ~NameEnabled(committed, c1, c2) THEN {}
            ELSE LET s == NameStep(committed, c1, c2)
                 IN  NameRaces(s.committed, s.caller, c2))
           \cup
           (IF ~NameEnabled(committed, c2, c1) THEN {}
            ELSE LET s == NameStep(committed, c2, c1)
                 IN  NameRaces(s.committed, c1, s.caller))

\* two callers make "b" and "c" the primary name of one location at the same time
SetPrimaryTwice(locationID, op1, op2) ==
    /\ UNCHANGED <<geo_levels, locations, relations>>
    /\ \E out \in NameRaces(name_maps, NameCaller(op1, locationID, "b"),
                            NameCaller(op2, locationID, "c")) :
         /\ name_maps' = out.rows
         /\ \E k \in 1..2 : err' = out.errs[k]

\* a caller of RemoveChildren(parentID, childGeoIDs) or of
\* RemoveParent(child, parentID) about to run its first statement: the read
\* of the relations, which comes before the transaction is opened
RemoveOps == {"RemoveChildren", "RemoveParent"}

RemoveCaller(op, parentID, childGeoIDs) ==
    [op |-> op, parent |-> parentID, listed |-> {childGeoIDs[i] : i \in 1..Len(childGeoIDs)},
     pc |-> "Read", matched |-> {}, deleted |-> {}, removed |-> {}, err |-> OK]

\* the next statements a removing caller may run and what each leaves: the
\* read on the committed rows; Store.DeleteRelation on one of the relations
\* read, in the order the store listed them, which waits while the other
\* caller holds that row, finds no row when the relation is gone and then
\* ends the call with a rollback; the Commit
RemoveSteps(committed, c, other) ==
    CASE c.pc = "Read" ->
           LET matched == IF c.op = "RemoveChildren"
                            THEN {r \in committed : r.parent_id = c.parent /\ uuidString(r.child_id) \in c.listed}
                            ELSE {r \in committed : r.parent_id = c.parent /\ r.child_id \in c.listed}
           IN  {[committed |-> committed,
                 caller |-> IF matched # {} THEN [c EXCEPT !.pc = "Delete", !.matched = matched]
                            ELSE IF c.op = "RemoveChildren" THEN [c EXCEPT !.pc = "Commit"]
                            ELSE [c EXCEPT !.pc = "done", !.err = ErrParentChildNotFound]]}
      [] c.pc = "Delete" ->
           {[committed |-> committed,
             caller |-> IF rel \notin committed
                          THEN [c EXCEPT !.pc = "done", !.deleted = {}, !.err = ErrRelationNotFound]
                        ELSE IF c.op = "RemoveParent" \/ c.deleted \cup {rel} = c.matched
                          THEN [c EXCEPT !.pc = "Commit", !.deleted = @ \cup {rel}]
                        ELSE [c EXCEPT !.deleted = @ \cup {rel}]] :
            rel \in (c.matched \ c.deleted) \ other.deleted}
      [] c.pc = "Commit" ->
           {[committed |-> committed \ c.deleted,
             caller |-> [c EXCEPT !.pc = "done", !.removed = c.deleted, !.deleted = {}]]}
      [] OTHER -> {}

\* the relations table, the two errors and the relations each caller
\* removed after every interleaving of the statements of two removing callers
RECURSIVE RemoveRaces(_, _, _)
RemoveRaces(committed, c1, c2) ==
    IF c1.pc = "done" /\ c2.pc = "done"
      THEN {[rels |-> committed, errs |-> <<c1.err, c2.err>>, removed |-> <<c1.removed, c2.removed>>]}
      ELSE UNION {RemoveRaces(s.committed, s.caller, c2) : s \in RemoveSteps(committed, c1, c2)}
           \cup
           UNION {RemoveRaces(s.committed, c1, s.caller) : s \in RemoveSteps(committed, c2, c1)}

\* RemoveChildren(geoID, childGeoIDs) and RemoveParent(child, geoID) at the same time
RemoveTwice(geoID, childGeoIDs, child) ==
    /\ UNCHANGED <<geo_levels, locations, name_maps>>
    /\ \E out \in RemoveRaces(relations, RemoveCaller("RemoveChildren", geoID, childGeoIDs),
                              RemoveCaller("RemoveParent", geoID, <<child>>)) :
         /\ relations' = out.rels
         /\ \E k \in 1..2 : err' = out.errs[k]

\* ------------------------------------------------------ pattern searches
\* names and patterns in mixed letter case, and the LIKE wildcard "_"
SearchTexts == {"a", "Ab", "B"}
Patterns == {"", "a", "A", "b", "ab", "_"}

\* the level names and the patterns they are looked up by
LevelPatterns == {"", "stat", "TAT", "o", "x", "_"}

\* the characters of a text
Chars(t) ==
    CASE t = "" -> <<>>
      [] t = "a" -> <<"a">>
      [] t = "A" -> <<"A">>
      [] t = "b" -> <<"b">>
      [] t = "B" -> <<"B">>
      [] t = "ab" -> <<"a", "b">>
      [] t = "Ab" -> <<"A", "b">>
      [] t = "_" -> <<"_">>
      [] t = "o" -> <<"o">>
      [] t = "x" -> <<"x">>
      [] t = "stat" -> <<"s", "t", "a", "t">>
      [] t = "TAT" -> <<"T", "A", "T">>
      [] t = "STATE" -> <<"S", "T", "A", "T", "E">>
      [] t = "COUNTRY" -> <<"C", "O", "U", "N", "T", "R", "Y">>

\* strings.ToUpper, character by character
ToUpperChars(chars) ==
    [i \in DOMAIN chars |->
       CASE chars[i] = "a" -> "A"
         [] chars[i] = "b" -> "B"
         [] chars[i] = "o" -> "O"
         [] chars[i] = "s" -> "S"
         [] chars[i] = "t" -> "T"
         [] chars[i] = "x" -> "X"
         [] OTHER -> chars[i]]

\* t LIKE '%p%' over characters: letters are compared as they are, "_" in
\* the pattern stands for any one character
LikeChars(t, p) ==
    \E i \in 0..(Len(t) - Len(p)) :
       \A j \in 1..Len(p) : p[j] = "_" \/ p[j] = t[i + j]

\* name LIKE '%pattern%' on a varchar column
Like(t, pattern) == LikeChars(Chars(t), Chars(pattern))

\* Store.GetGeoLevelsByPattern: the pattern in upper case, LIKE over the
\* levels that are not deleted, ErrGeoLevelNotFound for none
GetGeoLevelsByPatternResult(name) ==
    IF name = "" THEN [err |-> ErrGeoLevelNameRequired, geoLevels |-> {}]
    ELSE LET geoLevels == {g \in LiveLevels : LikeChars(Chars(g.name), ToUpperChars(Chars(name)))}
         IN  IF geoLevels = {} THEN [err |-> ErrGeoLevelNotFound, geoLevels |-> {}]
             ELSE [err |-> OK, geoLevels |-> geoLevels]

GetGeoLevelsByPattern(name) ==
    /\ UNCHANGED <<geo_levels, locations, name_maps, relations>>
    /\ err' = GetGeoLevelsByPatternResult(name).err

\* Store.SearchNamesByPattern
SearchNamesByPatternResult(pattern) ==
    IF pattern = "" THEN [err |-> ErrNameRequired, names |-> {}]
    ELSE [err |-> OK, names |-> {n \in name_maps : Like(n.name, pattern)}]

\* Store.SearchLocationsByPattern without a level filter: the matching rows
\* grouped by location, each group carrying the matched names only
SearchLocationsByPatternResult(pattern) ==
    IF pattern = "" THEN [err |-> ErrNameRequired, nil |-> TRUE, locations |-> {}]
    ELSE LET nameMatches == {n \in name_maps : Like(n.name, pattern)}
         IN  [err |-> OK, nil |-> FALSE,
              locations |->
                {[geo_id |-> id,
                  geo_level |-> LevelOf(LocationOf(id).geo_level_id).name,
                  names |-> {n.name : n \in {m \in nameMatches : m.location_id = id}}] :
                 id \in {n.location_id : n \in nameMatches}}]

\* ServiceOnPostgres.GetLocationsByPattern: the store's result copied by append
GetLocationsByPatternResult(name) ==
    LET results == SearchLocationsByPatternResult(name)
    IN  IF results.err # OK THEN [err |-> results.err, nil |-> TRUE, locations |-> {}]
        ELSE [err |-> OK, nil |-> results.locations = {},
              locations |-> {[loc EXCEPT !.geo_id = uuidString(loc.geo_id)] : loc \in results.locations}]

SearchNamesByPattern(pattern) ==
    /\ UNCHANGED <<geo_levels, locations, name_maps, relations>>
    /\ err' = SearchNamesByPatternResult(pattern).err

GetLocationsByPattern(name) ==
    /\ UNCHANGED <<geo_levels, locations, name_maps, relations>>
    /\ err' = GetLocationsByPatternResult(name).err

\* --------------------------------------------------------- state machine
Init ==
    /\ geo_levels = {}
    /\ locations = {}
    /\ name_maps = {}
    /\ relations = {}
    /\ err = OK

Next ==
    \/ \E name \in LevelNameInputs, rank \in RankInputs : InsertGeoLevel(name, rank)
    \/ \E name \in LevelNameInputs, newName \in LevelNameInputs \cup {NoArg}, newRank \in RankInputs :
         UpdateGeoLevel(name, newName, newRank)
    \/ \E name \in LevelNameInputs : DeleteGeoLevel(name)
    \/ \E geoLevelName \in LevelNameInputs, name \in TextInputs : InsertLocation(geoLevelName, name)
    \/ \E id \in UUIDs, geoLevelName \in LevelNameInputs \cup {NoArg}, name \in TextInputs \cup {NoArg} :
         UpdateLocation(id, geoLevelName, name)
    \/ \E id \in UUIDs : DeleteLocation(id)
    \/ \E id \in UUIDs, name \in TextInputs, isPrimary \in BOOLEAN : InsertNameMap(id, name, isPrimary)
    \/ \E id \in UUIDs, names \in SeqsUpTo(TextInputs, MaxList) : InsertNames(id, names)
    \/ \E id \in UUIDs, name \in TextInputs : DeleteNameMap(id, name)
    \/ \E id \in UUIDs, oldName \in TextInputs, newName \in TextInputs : UpdateNameMap(id, oldName, newName)
    \/ \E id \in UUIDs, name \in TextInputs : SetPrimaryName(id, name)
    \/ \E parent \in UUIDs, child \in UUIDs : InsertRelation(parent, child)
    \/ \E id \in UUIDs : DeleteAllRelations(id)
    \/ \E geoID \in IdStrings, name \in TextInputs : AddAliasToLocation(geoID, name)
    \/ \E geoID \in IdStrings, name \in TextInputs : RemoveAlias(geoID, name)
    \/ \E geoID \in IdStrings, parentGeoID \in IdStrings : AddParent(geoID, parentGeoID)
    \/ \E geoID \in IdStrings, childGeoIDs \in SeqsUpTo(IdStrings, MaxList) : AddChildren(geoID, childGeoIDs)
    \/ \E geoID \in IdStrings, parentGeoID \in IdStrings : RemoveParent(geoID, parentGeoID)
    \/ \E geoID \in IdStrings, childGeoIDs \in SeqsUpTo(IdSpellings, MaxList) : RemoveChildren(geoID, childGeoIDs)
    \/ \E geoIDs \in SeqsUpTo(IdStrings, MaxList) : GetLocations(geoIDs)
    \/ \E geoID \in IdStrings : GetAllParents(geoID)
    \/ \E geoID \in IdStrings : GetAllChildren(geoID)
    \/ \E geoID \in IdStrings, geoLevel \in LevelNameInputs : GetParentAtLevel(geoID, geoLevel)
    \/ \E geoID \in IdStrings, geoLevel \in LevelNameInputs : GetChildrenAtLevel(geoID, geoLevel)
    \/ \E pattern \in Patterns : SearchNamesByPattern(pattern)
    \/ \E pattern \in Patterns : GetLocationsByPattern(pattern)
    \/ \E name \in LevelPatterns : GetGeoLevelsByPattern(name)
    \/ \E geoID \in UUIDs, parent1 \in UUIDs, parent2 \in UUIDs : AddParentTwice(geoID, parent1, parent2)
    \/ \E locationID \in UUIDs, op1 \in NameOps, op2 \in NameOps : SetPrimaryTwice(locationID, op1, op2)
    \/ \E geoID \in UUIDs, childGeoIDs \in SeqsUpTo(UUIDs, MaxList), child \in UUIDs :
         RemoveTwice(geoID, childGeoIDs, child)

Spec == Init /\ [][Next]_vars

NamedIds == 1..MaxNamedLocations

\* The naming store on its own: one level, at most MaxNamedLocations
\* locations, every operation of namemap.go that writes name_maps, and the
\* creation and deletion of locations.
NextNames ==
    \/ \E rank \in Ranks : InsertGeoLevel("COUNTRY", rank)
    \/ \E geoLevelName \in {"country", "STATE"}, name \in TextInputs :
         /\ InsertLocation(geoLevelName, name)
         /\ Cardinality(locations') <= MaxNamedLocations
    \/ \E id \in NamedIds : DeleteLocation(id)
    \/ \E id \in NamedIds, name \in TextInputs, isPrimary \in BOOLEAN : InsertNameMap(id, name, isPrimary)
    \/ \E id \in NamedIds, names \in SeqsUpTo(TextInputs, MaxList) : InsertNames(id, names)
    \/ \E id \in NamedIds, name \in TextInputs : DeleteNameMap(id, name)
    \/ \E id \in NamedIds, oldName \in TextInputs, newName \in TextInputs : UpdateNameMap(id, oldName, newName)
    \/ \E id \in NamedIds, name \in TextInputs : SetPrimaryName(id, name)
    \/ \E geoID \in NamedIds \cup {MalformedId}, name \in TextInputs : AddAliasToLocation(geoID, name)
    \/ \E geoID \in NamedIds \cup {MalformedId}, name \in TextInputs : RemoveAlias(geoID, name)
    \/ \E geoIDs \in SeqsUpTo(NamedIds \cup {MalformedId}, MaxList) : GetLocations(geoIDs)

SpecNames == Init /\ [][NextNames]_vars

\* The naming store together with the update of a location's primary name.
NextNamesUpdate ==
    \/ NextNames
    \/ \E id \in NamedIds, name \in TextInputs \cup {NoArg} : UpdateLocation(id, NoArg, name)

SpecNamesUpdate == Init /\ [][NextNamesUpdate]_vars

\* The relation engine on its own: the two levels exist from the start with
\* any combination of ranks, locations carry the one name they are created
\* with, and every operation on relations is present.
InitRel ==
    /\ \E r1 \in RankInputs, r2 \in RankInputs :
         geo_levels = {[id |-> 1, name |-> "COUNTRY", rank |-> r1, deleted |-> FALSE],
                       [id |-> 2, name |-> "STATE", rank |-> r2, deleted |-> FALSE]}
    /\ locations = {}
    /\ name_maps = {}
    /\ relations = {}
    /\ err = OK

NextRel ==
    \/ \E name \in {"country", "STATE"}, newRank \in RankInputs : UpdateGeoLevel(name, NoArg, newRank)
    \/ \E geoLevelName \in {"COUNTRY", "state"} : InsertLocation(geoLevelName, "a")
    \/ \E id \in UUIDs, geoLevelName \in {"COUNTRY", "STATE"} : UpdateLocation(id, geoLevelName, NoArg)
    \/ \E id \in UUIDs : DeleteLocation(id)
    \/ \E parent \in UUIDs, child \in UUIDs : InsertRelation(parent, child)
    \/ \E id \in UUIDs : DeleteAllRelations(id)
    \/ \E geoID \in IdStrings, parentGeoID \in IdStrings : AddParent(geoID, parentGeoID)
    \/ \E geoID \in IdStrings, childGeoIDs \in SeqsUpTo(IdStrings, MaxList) : AddChildren(geoID, childGeoIDs)
    \/ \E geoID \in IdStrings, parentGeoID \in IdStrings : RemoveParent(geoID, parentGeoID)
    \/ \E geoID \in IdStrings, childGeoIDs \in SeqsUpTo(IdSpellings, 1) : RemoveChildren(geoID, childGeoIDs)
    \/ \E geoID \in IdStrings : GetAllParents(geoID)
    \/ \E geoID \in IdStrings : GetAllChildren(geoID)
    \/ \E geoID \in IdStrings, geoLevel \in LevelNameInputs : GetParentAtLevel(geoID, geoLevel)
    \/ \E geoID \in IdStrings, geoLevel \in LevelNameInputs : GetChildrenAtLevel(geoID, geoLevel)

SpecRel == InitRel /\ [][NextRel]_vars

\* Relations with aliases, for the reads that return locations together with
\* their names: locations are created, given an alias, related and deleted,
\* and their parents and children are read.
NextRelNames ==
    \/ \E name \in {"country", "STATE"}, newRank \in RankInputs : UpdateGeoLevel(name, NoArg, newRank)
    \/ \E geoLevelName \in {"COUNTRY", "state"} : InsertLocation(geoLevelName, "a")
    \/ \E id \in UUIDs : DeleteLocation(id)
    \/ \E geoID \in IdStrings, parentGeoID \in IdStrings : AddParent(geoID, parentGeoID)
    \/ \E geoID \in UUIDs : AddAliasToLocation(geoID, "b")
    \/ \E geoID \in IdStrings : GetAllParents(geoID)
    \/ \E geoID \in IdStrings : GetAllChildren(geoID)

SpecRelNames == InitRel /\ [][NextRelNames]_vars

\* The level registry with the locations that reference levels: every level
\* operation with names in any letter case, the creation of locations with
\* each write of its transaction refused in turn, and their deletion.
NextLevels ==
    \/ \E name \in LevelNameInputs, rank \in RankInputs : InsertGeoLevel(name, rank)
    \/ \E name \in LevelNameInputs, newName \in LevelNameInputs \cup {NoArg}, newRank \in RankInputs :
         UpdateGeoLevel(name, newName, newRank)
    \/ \E name \in LevelNameInputs : DeleteGeoLevel(name)
    \/ \E geoLevelName \in LevelNameInputs, name \in {"a", ""}, fault \in WriteFaults :
         /\ InsertLocationTx(geoLevelName, name, fault)
         /\ Cardinality(locations') <= MaxNamedLocations
    \/ \E id \in NamedIds : DeleteLocation(id)
    \/ \E name \in LevelPatterns : GetGeoLevelsByPattern(name)

SpecLevels == Init /\ [][NextLevels]_vars

\* The multi-statement operations with any one of their statements stopped:
\* two unranked levels exist, locations are created, named, related and
\* deleted, and every operation runs to its end or is struck at step `at` by
\* the database or by the caller's context.
InitTx ==
    /\ geo_levels = {[id |-> 1, name |-> "COUNTRY", rank |-> NoRank, deleted |-> FALSE],
                     [id |-> 2, name |-> "STATE", rank |-> NoRank, deleted |-> FALSE]}
    /\ locations = {}
    /\ name_maps = {}
    /\ relations = {}
    /\ err = OK

NextTx ==
    \E at \in 0..MaxStatements + 1, cause \in Causes :
       \/ \E geoLevelName \in {"country", "STATE"}, name \in {"a", ""} :
            InsertLocationAt(geoLevelName, name, at, cause)
       \/ \E locationID \in UUIDs, name \in {"b", ""}, isPrimary \in BOOLEAN :
            InsertNameMapAt(locationID, name, isPrimary, at, cause)
       \/ \E locationID \in UUIDs, name \in TextInputs : SetPrimaryNameAt(locationID, name, at, cause)
       \/ \E id \in UUIDs : DeleteLocationAt(id, at, cause)
       \/ \E geoID \in IdStrings, childGeoIDs \in SeqsUpTo(IdStrings, MaxList) :
            AddChildrenAt(geoID, childGeoIDs, at, cause)
       \/ \E geoID \in IdStrings, childGeoIDs \in SeqsUpTo(UUIDs, MaxList) :
            RemoveChildrenAt(geoID, childGeoIDs, at, cause)

SpecTx == InitTx /\ [][NextTx]_vars

\* Pairs of callers at the same time: two unranked levels exist, locations
\* are created, given aliases and deleted, and two callers at once add a
\* parent to one child or set the primary name of one location.
NextRace ==
    \/ \E geoLevelName \in {"COUNTRY", "STATE"} : InsertLocation(geoLevelName, "a")
    \/ \E locationID \in UUIDs, name \in {"b", "c"} : InsertNameMap(locationID, name, FALSE)
    \/ \E id \in UUIDs : DeleteLocation(id)
    \/ \E geoID \in UUIDs, parent1 \in UUIDs, parent2 \in UUIDs : AddParentTwice(geoID, parent1, parent2)
    \/ \E locationID \in UUIDs, op1 \in NameOps, op2 \in NameOps : SetPrimaryTwice(locationID, op1, op2)

SpecRace == InitTx /\ [][NextRace]_vars

\* Two callers that remove relations at the same time: locations on the two
\* unranked levels are created, related and deleted, and RemoveChildren
\* runs while RemoveParent runs on the same parent.
NextRemoveRace ==
    \/ \E geoLevelName \in {"COUNTRY", "STATE"} : InsertLocation(geoLevelName, "a")
    \/ \E id \in UUIDs : DeleteLocation(id)
    \/ \E geoID \in UUIDs, parentGeoID \in UUIDs : AddParent(geoID, parentGeoID)
    \/ \E geoID \in UUIDs, childGeoIDs \in SeqsUpTo(UUIDs, MaxList), child \in UUIDs :
         RemoveTwice(geoID, childGeoIDs, child)

SpecRemoveRace == InitTx /\ [][NextRemoveRace]_vars

\* The reads that return lists: locations on the two levels are created,
\* related and deleted, and each list read is called with known, unknown
\* and malformed ids, empty lists and patterns with and without matches.
NextReads ==
    \/ \E geoLevelName \in {"COUNTRY", "STATE"} : InsertLocation(geoLevelName, "a")
    \/ \E id \in UUIDs : DeleteLocation(id)
    \/ \E geoID \in UUIDs, parentGeoID \in UUIDs : AddParent(geoID, parentGeoID)
    \/ \E geoIDs \in SeqsUpTo(IdStrings, MaxList) : GetLocations(geoIDs)
    \/ \E pattern \in Patterns : GetLocationsByPattern(pattern)
    \/ \E geoID \in IdStrings : GetAllParents(geoID)
    \/ \E geoID \in IdStrings : GetAllChildren(geoID)
    \/ \E geoID \in IdStrings, geoLevel \in LevelNameInputs : GetChildrenAtLevel(geoID, geoLevel)

SpecReads == InitTx /\ [][NextReads]_vars

\* The searches by pattern over names in mixed letter case.
NextSearch ==
    \/ \E rank \in RankInputs : InsertGeoLevel("COUNTRY", rank)
    \/ \E name \in SearchTexts :
         /\ InsertLocation("COUNTRY", name)
         /\ Cardinality(locations') <= MaxNamedLocations
    \/ \E geoID \in NamedIds, name \in SearchTexts : AddAliasToLocation(geoID, name)
    \/ \E id \in NamedIds : DeleteLocation(id)
    \/ \E pattern \in Patterns : SearchNamesByPattern(pattern)
    \/ \E pattern \in Patterns : GetLocationsByPattern(pattern)

SpecSearch == Init /\ [][NextSearch]_vars

\* ================================================================ claims
HasPrimaryNamed(rows, loc, name) == \E n \in PrimaryRows(rows, loc) : n.name = name
RowIds(rows) == {n.id : n \in rows}

\* C1: every location has at most one name binding with is_primary = true,
\* in every state, the state right after an add_name or set_primary that
\* asked for a primary included.
C1_AtMostOnePrimary ==
    \A l \in locations : Cardinality(PrimaryRows(name_maps, l.id)) <= 1

\* a location whose first primary was demoted in favour of a later binding
C1_Witness ==
    /\ Cardinality(locations) = 1
    /\ \E l \in LiveLocations : \E p \in PrimaryRows(name_maps, l.id) :
          \E a \in NamesOf(name_maps, l.id) : ~a.is_primary /\ a.id < p.id

\* the level a location row carries now, and that level's rank
LevelIdOf(locs, id) == (CHOOSE l \in locs : l.id = id).geo_level_id
RankOf(id) == LevelOf(LevelIdOf(locations, id)).rank
OneParentPerLevel(locs, rels) ==
    \A r1 \in rels, r2 \in rels :
       (r1.child_id = r2.child_id /\ LevelIdOf(locs, r1.parent_id) = LevelIdOf(locs, r2.parent_id))
          => r1 = r2
RankRejects(parentID, childID) ==
    RankOf(parentID) # NoRank /\ RankOf(childID) # NoRank /\ RankOf(parentID) >= RankOf(childID)
Listed(list) == {list[i] : i \in 1..Len(list)}
FirstAt(list, x) == CHOOSE i \in 1..Len(list) : list[i] = x /\ \A j \in 1..(i - 1) : list[j] # x

C3_RankOrder ==
    \A parent \in UUIDs, child \in UUIDs :
       (parent # child /\ LocationExists(parent) /\ LocationExists(child)) =>
          LET res == InsertRelationOn(relations, parent, child)
          IN  /\ (res.err = ErrInvalidHierarchy) <=> RankRejects(parent, child)
              /\ res.err = ErrInvalidHierarchy => res.rels = relations
              /\ AddParentResult(child, parent) = res

\* two locations of equal rank, the relation between them refused
C3_Witness ==
    /\ err = ErrInvalidHierarchy
    /\ relations = {}
    /\ Cardinality(LiveLocations) = 2
    /\ \A l1 \in LiveLocations, l2 \in LiveLocations :
          RankOf(l1.id) # NoRank /\ RankOf(l1.id) = RankOf(l2.id)

\* C4: in every state add_many_children(parent, list) is all-or-nothing.  A
\* call that returns an error leaves the relations as they were; a malformed
\* id, an unknown id, the parent itself, a rank violation or a child that
\* has a parent at the parent's level each make it return an error; a call
\* that succeeds has added exactly one relation per listed child; an empty
\* list (parent id well-formed) succeeds and changes nothing.
C4_AllOrNothing ==
    \A geoID \in IdStrings, list \in SeqsUpTo(IdStrings, MaxList) :
       LET res == AddChildrenResult(geoID, list)
       IN  /\ res.err # OK => res.rels = relations
           /\ res.err = OK =>
                /\ relations \subseteq res.rels
                /\ res.rels \ relations =
                     {[parent_id |-> geoID, child_id |-> c] : c \in Listed(list)}
                /\ Cardinality(res.rels) = Cardinality(relations) + Len(list)
           /\ (list = <<>> /\ geoID \in UUIDs) => (res.err = OK /\ res.rels = relations)
           /\ (\E c \in Listed(list) :
                 \/ c = MalformedId
                 \/ ~LocationExists(c)
                 \/ c = geoID
                 \/ /\ LocationExists(geoID)
                    /\ \/ RankRejects(geoID, c)
                       \/ \E r \in relations :
                            /\ r.child_id = c
                            /\ LevelIdOf(locations, r.parent_id) = LevelIdOf(locations, geoID))
                => res.err # OK

\* one parent holding every other location as its child
C4_Witness ==
    /\ err = OK
    /\ \E p \in LiveLocations :
          {r.child_id : r \in {q \in relations : q.parent_id = p.id}} = UUIDs \ {p.id}

\* C5: delete(E) on an existing location succeeds and leaves E not found,
\* no name bound to E and no relation with E as parent or child, everything
\* else being as before; delete of an unknown id fails with NotFound and
\* changes nothing.
C5_DeleteCascade ==
    [][\A id \in UUIDs :
         DeleteLocation(id) =>
           IF LocationExists(id)
             THEN /\ err' = OK
                  /\ ~\E l \in locations' : l.id = id /\ ~l.deleted
                  /\ {l \in locations' : l.id # id} = {l \in locations : l.id # id}
                  /\ name_maps' = {n \in name_maps : n.location_id # id}
                  /\ relations' = {r \in relations : r.parent_id # id /\ r.child_id # id}
             ELSE /\ err' = ErrLocationNotFound
                  /\ UNCHANGED <<locations, name_maps, relations>>]_vars

\* a deleted location next to two that are still related
C5_Witness ==
    /\ err = OK
    /\ \E l \in locations :
          /\ l.deleted
          /\ NamesOf(name_maps, l.id) = {}
          /\ \A r \in relations : r.parent_id # l.id /\ r.child_id # l.id
    /\ relations # {}

C7_RemovePrimaryRejected ==
    [][\A id \in UUIDs, n \in TextInputs :
         DeleteNameMap(id, n) =>
           /\ HasPrimaryNamed(name_maps, id, n) =>
                /\ err' = ErrCannotDeletePrimary
                /\ name_maps' = name_maps
           /\ (NamedRows(name_maps, id, n) # {} /\ ~HasPrimaryNamed(name_maps, id, n)) =>
                /\ err' = OK
                /\ NamedRows(name_maps', id, n) = {}]_vars

\* C8: set_primary(E, n) on an existing entity with non-empty n ends with n
\* being E's one and only primary; if n was already primary nothing changes;
\* if n was an alias the former primary stays bound as an alias; if n was
\* not bound a new primary binding is created and the former primary is
\* demoted.  Unknown entity: NotFound; empty name: NameRequired; nothing
\* changes on either.
C8_SetPrimary ==
    [][\A id \in UUIDs, n \in TextInputs :
         SetPrimaryName(id, n) =>
           /\ n = "" => (err' = ErrNameRequired /\ name_maps' = name_maps)
           /\ (n # "" /\ ~LocationExists(id)) => (err' = ErrLocationNotFound /\ name_maps' = name_maps)
           /\ (n # "" /\ LocationExists(id)) =>
                /\ err' = OK
                /\ \E p \in name_maps' : PrimaryRows(name_maps', id) = {p} /\ p.name = n
                /\ HasPrimaryNamed(name_maps, id, n) => name_maps' = name_maps
                /\ \A old \in PrimaryRows(name_maps, id) :
                     old.name # n => [old EXCEPT !.is_primary = FALSE] \in name_maps'
                /\ NamedRows(name_maps, id, n) = {} =>
                     Cardinality(name_maps') = Cardinality(name_maps) + 1
                /\ NamedRows(name_maps, id, n) # {} => RowIds(name_maps') = RowIds(name_maps)]_vars

\* C9: a successful add_name(E, n, isPrimary = true) on an entity that has a
\* primary p adds exactly one binding; afterwards n is the primary, p is
\* bound as a non-primary alias and every other binding is as before.  A
\* successful add_name with isPrimary = false changes no primary.
C9_AddPrimaryDemotes ==
    [][\A id \in UUIDs, n \in TextInputs :
         /\ (InsertNameMap(id, n, TRUE) /\ err' = OK /\ PrimaryRows(name_maps, id) # {}) =>
              \E new \in name_maps' :
                /\ new \notin name_maps /\ new.id \notin RowIds(name_maps)
                /\ new.location_id = id /\ new.name = n /\ new.is_primary
                /\ PrimaryRows(name_maps', id) = {new}
                /\ name_maps' = {new}
                     \cup {[p EXCEPT !.is_primary = FALSE] : p \in PrimaryRows(name_maps, id)}
                     \cup (name_maps \ PrimaryRows(name_maps, id))
         /\ (InsertNameMap(id, n, FALSE) /\ err' = OK) =>
              /\ {r \in name_maps' : r.is_primary} = {r \in name_maps : r.is_primary}
              /\ name_maps \subseteq name_maps'
              /\ Cardinality(name_maps') = Cardinality(name_maps) + 1]_vars

\* a location with three bindings: the newest is primary, the first one an alias
C9_Witness ==
    /\ Cardinality(locations) = 1
    /\ Cardinality(name_maps) = 3
    /\ err = OK
    /\ \E p \in name_maps : p.is_primary /\ p.id = 3

\* C10: add_name(E, n, _) fails with NameRequired for an empty n, with
\* NotFound when E is no existing entity, and with AlreadyExists when n is
\* bound to E already, as primary or as alias; the bindings stay as they were.
C10_AddNameRejected ==
    [][\A id \in UUIDs, n \in TextInputs, isPrimary \in BOOLEAN :
         InsertNameMap(id, n, isPrimary) =>
           /\ n = "" => (err' = ErrNameRequired /\ name_maps' = name_maps)
           /\ (n # "" /\ ~LocationExists(id)) => (err' = ErrLocationNotFound /\ name_maps' = name_maps)
           /\ (n # "" /\ LocationExists(id) /\ NamedRows(name_maps, id, n) # {}) =>
                (err' = ErrNameAlreadyExists /\ name_maps' = name_maps)]_vars

\* an alias equal to the primary name was refused
C10_Witness ==
    /\ err = ErrNameAlreadyExists
    /\ \E l \in LiveLocations : Cardinality(NamesOf(name_maps, l.id)) = 1

\* C11: in every reachable state no location has two name bindings with the
\* same text (exact comparison).
C11_UniqueNames ==
    \A n1 \in name_maps, n2 \in name_maps :
       (n1.location_id = n2.location_id /\ n1.name = n2.name) => n1 = n2

\* C12: create(levelName, name) is atomic.  When it returns nil exactly one
\* location row is new, live and bound to the live level named
\* upper(levelName), and exactly one name row is new: the only name of that
\* location, primary, with the text name.  When it returns an error (empty
\* name: NameRequired; no level of that name: LevelNotExist; a refused write
\* of either row) locations and name_maps are as before.
C12_CreateAtomic ==
    [][\A geoLevelName \in LevelNameInputs, name \in TextInputs, fault \in WriteFaults :
         InsertLocationTx(geoLevelName, name, fault) =>
           /\ name = "" => err' = ErrNameRequired
           /\ (name # "" /\ LevelByName(ToUpper(geoLevelName)) = {}) => err' = ErrGeoLevelNotExist
           /\ (name # "" /\ LevelByName(ToUpper(geoLevelName)) # {}) => (err' = OK <=> fault = "none")
           /\ err' # OK => (locations' = locations /\ name_maps' = name_maps)
           /\ err' = OK =>
                \E l \in locations', n \in name_maps' :
                   /\ locations' = locations \cup {l}
                   /\ l.id \notin {k.id : k \in locations}
                   /\ ~l.deleted
                   /\ \E g \in LiveLevels : g.id = l.geo_level_id /\ g.name = ToUpper(geoLevelName)
                   /\ name_maps' = name_maps \cup {n}
                   /\ n.id \notin RowIds(name_maps)
                   /\ NamesOf(name_maps', l.id) = {n}
                   /\ n.name = name /\ n.is_primary]_vars

\* two locations created, one deleted since, the other with its one primary name
C12_Witness ==
    /\ err = OK
    /\ Cardinality(locations) = 2
    /\ \E l \in LiveLocations, d \in locations :
          /\ d.deleted
          /\ l.id > d.id
          /\ \E n \in name_maps : NamesOf(name_maps, l.id) = {n} /\ n.is_primary

\* C13: in every reachable state every location that exists (created and
\* not deleted) has exactly one primary name, never none.
C13_ExactlyOnePrimary ==
    \A l \in LiveLocations : Cardinality(PrimaryRows(name_maps, l.id)) = 1

\* a location left with one name only, which is not the one it was created with
C13_Witness ==
    /\ Cardinality(locations) = 1
    /\ LiveLocations # {}
    /\ \E n \in name_maps : name_maps = {n} /\ n.id = 2 /\ n.is_primary

\* C14: in every state get_many(ids) is all-or-nothing.  If some id of the
\* list names no existing location the call returns no location at all and
\* the error of the first such id: NotFound for a well-formed id, the parse
\* error for a malformed one.  Otherwise it returns one location per id, in
\* the order of the list, each with its primary name and its aliases.
C14_GetManyAllOrNothing ==
    \A ids \in SeqsUpTo(IdStrings, MaxList) :
       LET res == GetLocationsResult(ids)
           bad == {i \in 1..Len(ids) : ~LocationExists(ids[i])}
       IN  IF bad # {}
             THEN /\ res.locations = <<>>
                  /\ LET first == CHOOSE i \in bad : \A j \in bad : i <= j
                     IN  res.err = IF ids[first] = MalformedId THEN ErrInvalidUUID
                                   ELSE ErrLocationNotFound
             ELSE /\ res.err = OK
                  /\ Len(res.locations) = Len(ids)
                  /\ \A i \in 1..Len(ids) :
                       /\ res.locations[i].geo_id = ids[i]
                       /\ HasPrimaryNamed(name_maps, ids[i], res.locations[i].name)
                       /\ \A text \in TextInputs :
                            res.locations[i].aliases[text] =
                              Cardinality({n \in NamesOf(name_maps, ids[i]) :
                                             n.name = text /\ ~n.is_primary})

\* a fetch refused for an unknown id while a location with an alias exists
C14_Witness ==
    /\ err = ErrLocationNotFound
    /\ \E l \in locations : l.deleted
    /\ \E l \in LiveLocations : \E n \in NamesOf(name_maps, l.id) : ~n.is_primary

\* C15: in every state, for a location E and a text X for which
\* add_name(E, X, false) succeeds, remove(E, X) right after it succeeds and
\* leaves the bindings exactly as they were before the add (X not among
\* them); remove(E, X) for a non-empty X that is not bound to E succeeds and
\* changes nothing, so a repeated remove succeeds as well.
C15_AddRemoveRoundTrip ==
    \A id \in UUIDs, x \in Texts :
       /\ FreeNameIds(name_maps) # {} =>
            LET added == InsertNameMapOn(name_maps, id, x, FALSE)
            IN  added.err = OK =>
                  /\ NamedRows(added.rows, id, x) # {}
                  /\ \A out \in DeleteNameMapOutcomes(added.rows, id, x) :
                       /\ out.err = OK
                       /\ out.rows = name_maps
                       /\ NamedRows(out.rows, id, x) = {}
                       /\ DeleteNameMapOutcomes(out.rows, id, x) = {[err |-> OK, rows |-> out.rows]}
       /\ NamedRows(name_maps, id, x) = {} =>
            DeleteNameMapOutcomes(name_maps, id, x) = {[err |-> OK, rows |-> name_maps]}

\* an alias was added and removed again: the primary is the only name, row 2 is free
C15_Witness ==
    /\ err = OK
    /\ Cardinality(locations) = 2
    /\ \A l \in LiveLocations : \E n \in name_maps : NamesOf(name_maps, l.id) = {n} /\ n.is_primary
    /\ RowIds(name_maps) = {1, 3}

\* C16: rename(E, old, new) fails with NameRequired when either text is
\* empty and with the not-found error when old is not bound to E; otherwise
\* it fails with AlreadyExists when new is bound to E by a binding other
\* than the renamed one, and else succeeds and changes the text of one
\* binding whose text was old, keeping its id and is_primary flag and every
\* other binding.  Every failure leaves the bindings as they were.
C16_RenameFrame ==
    [][\A id \in UUIDs, old \in TextInputs, new \in TextInputs :
         UpdateNameMap(id, old, new) =>
           LET olds == NamedRows(name_maps, id, old)
               news == NamedRows(name_maps, id, new)
           IN  /\ err' # OK => name_maps' = name_maps
               /\ (old = "" \/ new = "") => err' = ErrNameRequired
               /\ (old # "" /\ new # "" /\ olds = {}) => err' = ErrNameNotFound
               /\ (old # "" /\ new # "" /\ olds # {}) =>
                    /\ err' \in {OK, ErrNameAlreadyExists}
                    /\ (\A r \in olds : \E o \in news : o.id # r.id) => err' = ErrNameAlreadyExists
                    /\ (\A r \in olds : \A o \in news : o.id = r.id) => err' = OK
                    /\ err' = ErrNameAlreadyExists => \E r \in olds, o \in news : o.id # r.id
                    /\ err' = OK =>
                         \E r \in olds :
                            name_maps' = (name_maps \ {r}) \cup {[r EXCEPT !.name = new]}]_vars

\* a rename of a text that is not bound, on a location with a primary and an alias
C16_Witness ==
    /\ err = ErrNameNotFound
    /\ \E l \in LiveLocations :
          /\ Cardinality(NamesOf(name_maps, l.id)) = 2
          /\ Cardinality(PrimaryRows(name_maps, l.id)) = 1

\* the names of the live levels are upper case and pairwise distinct
LevelNamesUpperDistinct ==
    \A g \in LiveLevels :
       /\ g.name = ToUpper(g.name)
       /\ \A h \in LiveLevels : h.name = g.name => h = g

\* C17: in every reachable state the live level names are upper case and
\* pairwise distinct.  InsertGeoLevel(name, rank) fails with NameRequired for
\* an empty name and with AlreadyExists, creating nothing, when a live level
\* is named upper(name), whatever the case of the argument; when it succeeds
\* it adds exactly one level, named upper(name).  UpdateGeoLevel fails with
\* AlreadyExists, changing nothing, when upper(newName) names another live
\* level, and a successful rename stores upper(newName).
C17_LevelNames ==
    /\ []LevelNamesUpperDistinct
    /\ [][/\ \A name \in LevelNameInputs, rank \in RankInputs :
               InsertGeoLevel(name, rank) =>
                 /\ name = "" => err' = ErrGeoLevelNameRequired
                 /\ (name # "" /\ LevelByName(ToUpper(name)) # {}) => err' = ErrGeoLevelAlreadyExists
                 /\ err' # OK => geo_levels' = geo_levels
                 /\ err' = OK =>
                      \E g \in geo_levels' \ geo_levels :
                         /\ geo_levels' = geo_levels \cup {g}
                         /\ g.name = ToUpper(name) /\ g.rank = rank /\ ~g.deleted
          /\ \A name \in LevelNameInputs \ {""}, newName \in LevelNameInputs \ {""}, newRank \in RankInputs :
               UpdateGeoLevel(name, newName, newRank) =>
                 /\ (\E g \in LevelByName(ToUpper(name)), h \in LevelByName(ToUpper(newName)) : h # g)
                      => err' = ErrGeoLevelAlreadyExists
                 /\ err' # OK => geo_levels' = geo_levels
                 /\ (err' = OK /\ LevelByName(ToUpper(name)) # {}) =>
                      \E g \in LevelByName(ToUpper(name)), h \in geo_levels' :
                         h.id = g.id /\ h.name = ToUpper(newName) /\ ~h.deleted]_vars

\* a create refused because its name, in another case, is taken, with two live levels
C17_Witness ==
    /\ err = ErrGeoLevelAlreadyExists
    /\ {g.name : g \in LiveLevels} = {"COUNTRY", "STATE"}

\* every live location references a live level
LocationsReferenceLiveLevels ==
    \A l \in LiveLocations : \E g \in LiveLevels : g.id = l.geo_level_id

\* C18: DeleteGeoLevel(name), for a non-empty name, succeeds exactly when a
\* live level is named upper(name) and no live location references it; it
\* fails with InUse while a live location references the level and with
\* NotFound when no live level has the name (NameRequired for an empty
\* name); a failure leaves the levels unchanged and a success removes exactly
\* that level from the live ones.  In every reachable state every live
\* location references a live level.
C18_DeleteLevel ==
    /\ []LocationsReferenceLiveLevels
    /\ [][\A name \in LevelNameInputs :
            DeleteGeoLevel(name) =>
              LET named == LevelByName(ToUpper(name))
                  used == {g \in named : \E l \in LiveLocations : l.geo_level_id = g.id}
              IN  /\ name = "" => err' = ErrGeoLevelNameRequired
                  /\ (name # "" /\ named = {}) => err' = ErrGeoLevelNotFound
                  /\ (name # "" /\ used # {}) => err' = ErrGeoLevelInUse
                  /\ err' = OK <=> (name # "" /\ named # {} /\ used = {})
                  /\ err' # OK => geo_levels' = geo_levels
                  /\ err' = OK =>
                       /\ {g \in geo_levels' : ~g.deleted} = LiveLevels \ named
                       /\ {g.id : g \in geo_levels'} = {g.id : g \in geo_levels}]_vars

\* a level deleted after the only location that referenced it was deleted
C18_Witness ==
    /\ err = OK
    /\ \E g \in geo_levels :
          /\ g.deleted
          /\ \E l \in locations : l.deleted /\ l.geo_level_id = g.id
          /\ \A l \in locations : l.geo_level_id = g.id => l.deleted

C20_RemoveParent ==
    \A geoID \in IdStrings, parentGeoID \in IdStrings :
       LET found == {r \in relations : r.child_id = geoID /\ r.parent_id = parentGeoID}
       IN  \A out \in RemoveParentOutcomes(relations, geoID, parentGeoID) :
              /\ out.err # OK => out.rels = relations
              /\ (geoID = MalformedId \/ parentGeoID = MalformedId) => out.err = ErrInvalidUUID
              /\ (geoID # MalformedId /\ parentGeoID # MalformedId) =>
                   /\ found = {} => out.err = ErrParentChildNotFound
                   /\ (~LocationExists(geoID) \/ ~LocationExists(parentGeoID))
                        => out.err = ErrParentChildNotFound
                   /\ found # {} =>
                        /\ out.err = OK
                        /\ Cardinality(found) = 1
                        /\ out.rels = relations \ found
                        /\ \A again \in RemoveParentOutcomes(out.rels, geoID, parentGeoID) :
                              again.err = ErrParentChildNotFound /\ again.rels = out.rels

\* a removal refused while the reversed pair is related
C20_Witness ==
    /\ err = ErrParentChildNotFound
    /\ \E r \in relations : \A q \in relations : ~(q.parent_id = r.child_id /\ q.child_id = r.parent_id)

\* the children of a parent under the relations rels
ChildrenOf(rels, parentID) == {r.child_id : r \in {q \in rels : q.parent_id = parentID}}

\* the uuids that the well-formed strings of a list name
NamedBy(ids) == {uuidFromString(ids[i]).id : i \in {j \in 1..Len(ids) : uuidFromString(ids[j]).ok}}

\* C21: RemoveChildren(parent, ids) with a well-formed parent id returns nil,
\* and afterwards the children of parent are exactly the previous children
\* minus the locations that ids names; ids that name no child of parent,
\* unknown and malformed ids are skipped, an unknown parent and an empty list
\* change nothing, and the relations of other parents stay as they were.
C21_RemoveChildren ==
    \A geoID \in UUIDs, ids \in SeqsUpTo(IdSpellings, MaxList) :
       LET res == RemoveChildrenResult(relations, geoID, ids)
       IN  /\ res.err = OK
           /\ ChildrenOf(res.rels, geoID) = ChildrenOf(relations, geoID) \ NamedBy(ids)
           /\ {r \in res.rels : r.parent_id # geoID} = {r \in relations : r.parent_id # geoID}
           /\ res.rels \subseteq relations

\* the geo ids of the entries of a returned list
GeoIdsOf(list) == {v.geo_id : v \in list.items}

\* C22: for a well-formed id, GetAllParents(c) returns, without error, one
\* entry for each location p with a relation (p, c) and nothing else, and
\* GetAllChildren(p) one entry for each c with a relation (p, c): a
\* grandparent or grandchild that is not also directly related is never
\* returned; each entry carries the location's level name, primary name and
\* aliases; an id that names no location yields an empty list and no error.
C22_DirectRelatives ==
    \A geoID \in IdStrings :
       LET ps == GetAllParentsResult(geoID)
           cs == GetAllChildrenResult(geoID)
       IN  IF geoID = MalformedId
             THEN ps.err = ErrInvalidUUID /\ cs.err = ErrInvalidUUID
             ELSE /\ ps.err = OK /\ cs.err = OK
                  /\ GeoIdsOf(ps.list) = {r.parent_id : r \in {q \in relations : q.child_id = geoID}}
                  /\ GeoIdsOf(cs.list) = {r.child_id : r \in {q \in relations : q.parent_id = geoID}}
                  /\ Cardinality(ps.list.items) = Cardinality(GeoIdsOf(ps.list))
                  /\ Cardinality(cs.list.items) = Cardinality(GeoIdsOf(cs.list))
                  /\ \A v \in ps.list.items \cup cs.list.items :
                        /\ LocationExists(v.geo_id)
                        /\ v = StoreGetLocation(v.geo_id).loc
                        /\ HasPrimaryNamed(name_maps, v.geo_id, v.name)
                  /\ \A r1 \in relations, r2 \in relations :
                        (r1.child_id = r2.parent_id /\ r2.child_id = geoID
                           /\ ~\E d \in relations : d.parent_id = r1.parent_id /\ d.child_id = geoID)
                          => r1.parent_id \notin GeoIdsOf(ps.list)
                  /\ \A r1 \in relations, r2 \in relations :
                        (r1.parent_id = geoID /\ r1.child_id = r2.parent_id
                           /\ ~\E d \in relations : d.parent_id = geoID /\ d.child_id = r2.child_id)
                          => r2.child_id \notin GeoIdsOf(cs.list)
                  /\ ~LocationExists(geoID) => ps.list.items = {} /\ cs.list.items = {}

\* a chain of three locations: a grandparent, a parent and a child
C22_Witness ==
    /\ err = OK
    /\ \E r1 \in relations, r2 \in relations :
          /\ r1.child_id = r2.parent_id
          /\ r1.parent_id # r2.child_id
          /\ ~\E d \in relations : d.parent_id = r1.parent_id /\ d.child_id = r2.child_id

Lower(chars) ==
    [i \in DOMAIN chars |-> CASE chars[i] = "A" -> "a" [] chars[i] = "B" -> "b" [] OTHER -> chars[i]]

\* p occurs in t as a run of consecutive characters
IsSubstring(p, t) == \E i \in 0..(Len(t) - Len(p)) : SubSeq(t, i + 1, i + Len(p)) = p

\* the bindings whose text contains the pattern when letter case is ignored
MatchingIgnoringCase(pattern) ==
    {n \in name_maps : IsSubstring(Lower(Chars(pattern)), Lower(Chars(n.name)))}

\* C24: the searches by pattern match case-insensitively: for a non-empty
\* pattern SearchNamesByPattern returns, without error, exactly the bindings
\* (primary or alias) whose text t has lower(pattern) as a substring of
\* lower(t), and the location search returns exactly the locations of those
\* bindings with those names; nothing matching gives an empty result without
\* error, and an empty pattern fails with NameRequired.
C24_SearchIgnoresCase ==
    \A pattern \in Patterns :
       LET names == SearchNamesByPatternResult(pattern)
           locs == GetLocationsByPatternResult(pattern)
       IN  IF pattern = ""
             THEN names.err = ErrNameRequired /\ locs.err = ErrNameRequired
             ELSE /\ names.err = OK /\ locs.err = OK
                  /\ names.names = MatchingIgnoringCase(pattern)
                  /\ {l.geo_id : l \in locs.locations} = {n.location_id : n \in MatchingIgnoringCase(pattern)}
                  /\ \A l \in locs.locations :
                        l.names = {n.name : n \in {m \in MatchingIgnoringCase(pattern) : m.location_id = l.geo_id}}

\* a call that did nothing but parse, and failed at its last parse
RejectedBeforeStore(steps) ==
    steps # <<>> /\ \A i \in 1..Len(steps) : steps[i] = "uuidFromString"

\* C25: a facade call that is given a malformed id returns the parse error
\* and has made no store call and opened no transaction before it returns;
\* only the malformed entries of the list of RemoveChildren are skipped.
C25_RejectedBeforeStore ==
    /\ \A geoID \in IdStrings, other \in IdStrings :
          (geoID = MalformedId \/ other = MalformedId) =>
             /\ AddParentResult(geoID, other).err = ErrInvalidUUID
             /\ RejectedBeforeStore(AddParentSteps(geoID, other))
             /\ \A out \in RemoveParentOutcomes(relations, geoID, other) : out.err = ErrInvalidUUID
             /\ RejectedBeforeStore(RemoveParentSteps(geoID, other))
    /\ \A geoID \in IdStrings, list \in SeqsUpTo(IdStrings, MaxList) :
          /\ (geoID = MalformedId \/ MalformedId \in Listed(list)) =>
                /\ AddChildrenResult(geoID, list).err = ErrInvalidUUID
                /\ RejectedBeforeStore(AddChildrenSteps(geoID, list))
          /\ geoID = MalformedId =>
                /\ RemoveChildrenResult(relations, geoID, list).err = ErrInvalidUUID
                /\ RejectedBeforeStore(RemoveChildrenSteps(geoID, list))
          /\ (geoID # MalformedId /\ MalformedId \in Listed(list)) =>
                RemoveChildrenResult(relations, geoID, list).err = OK
          /\ MalformedId \in Listed(list) =>
                /\ GetLocationsResult(list).err = ErrInvalidUUID
                /\ RejectedBeforeStore(GetLocationsSteps(list))
    /\ \A name \in TextInputs :
          /\ RejectedBeforeStore(AddAliasToLocationSteps(MalformedId, name))
          /\ RejectedBeforeStore(AddLocationSteps(MalformedId, "COUNTRY", name))
    /\ GetAllParentsResult(MalformedId).err = ErrInvalidUUID
    /\ GetAllChildrenResult(MalformedId).err = ErrInvalidUUID
    /\ GetLocationResult(MalformedId).err = ErrInvalidUUID
    /\ \A storeCall \in {"GetLocation", "GetParents", "GetChildren", "DeleteLocation", "UpdateLocation"} :
          RejectedBeforeStore(OneIdSteps(MalformedId, storeCall))

\* C26: a step that returns an error leaves the levels, locations, name
\* bindings and relations exactly as they were: whatever an operation wrote
\* before the statement that failed is gone.
C26_ErrorsChangeNothing ==
    [][err' # OK => UNCHANGED <<geo_levels, locations, name_maps, relations>>]_vars

\* a call was stopped in a state where a location has an alias and a relation:
\* the rows that its deletion removes before its last statement
C26_Witness ==
    /\ err \in Causes
    /\ \E n \in name_maps, r \in relations :
         /\ ~n.is_primary
         /\ n.location_id \in {r.parent_id, r.child_id}
         /\ \E run \in DeleteLocationRuns(Db, n.location_id) :
              /\ run.seq[1] # Db
              /\ run.seq[2] # run.seq[1]

\* the runs of the multi-statement operations in the present state, each with
\* whether its transaction is bound to the caller's context
StoreRuns ==
    UNION ((IF FreeNameIds(name_maps) = {} THEN {}
            ELSE {InsertNameMapRuns(Db, locationID, "b", TRUE) : locationID \in UUIDs}
                 \cup {SetPrimaryNameRuns(Db, locationID, name) : locationID \in UUIDs, name \in Texts}
                 \cup (IF Cardinality(locations) = MaxLocations THEN {}
                       ELSE {InsertLocationRuns(Db, geoLevelName, "a") :
                               geoLevelName \in {"country", "STATE"}}))
           \cup {DeleteLocationRuns(Db, id) : id \in UUIDs})

FacadeRuns ==
    UNION ({AddChildrenRuns(Db, geoID, childGeoIDs) :
              geoID \in IdStrings, childGeoIDs \in SeqsUpTo(IdStrings, MaxList)}
           \cup {RemoveChildrenRuns(Db, geoID, childGeoIDs) :
                   geoID \in IdStrings, childGeoIDs \in SeqsUpTo(UUIDs, MaxList)})

Cancelled(run, at, bound) == TxOutcome(Db, run, at, ErrContext, bound)

\* C29: when the caller's context is cancelled or past its deadline at any
\* step of creating a location, adding a name with promotion, setting the
\* primary name, adding children, removing children or deleting a location,
\* the call returns an error and the tables are as before the call.
C29_CancelledChangesNothing ==
    /\ \A run \in StoreRuns : \A at \in 1..Len(run.seq) + 1 :
          Cancelled(run, at, TRUE).err # OK /\ Cancelled(run, at, TRUE).db = Db
    /\ \A run \in FacadeRuns : \A at \in 1..Len(run.seq) + 1 :
          Cancelled(run, at, FALSE).err # OK /\ Cancelled(run, at, FALSE).db = Db

\* the non-deleted relations of a child whose parents carry one level
ParentsOnLevel(rels, childID, levelID) ==
    {r \in rels : r.child_id = childID /\ LevelIdOf(locations, r.parent_id) = levelID}

\* C27: two callers at the same time add two different parents of one level
\* to the same child: under every interleaving of their reads and writes at
\* most one of them succeeds, and the child has at most one relation with a
\* parent of that level afterwards.
C27_OneOfTwoCommits ==
    \A geoID \in UUIDs, parent1 \in UUIDs, parent2 \in UUIDs :
       (/\ parent1 # parent2
        /\ \A id \in {geoID, parent1, parent2} : LocationExists(id)
        /\ LevelIdOf(locations, parent1) = LevelIdOf(locations, parent2)
        /\ OneParentPerLevel(locations, relations))
       => \A out \in AddParentRaces(relations, RelationCaller(parent1, geoID),
                                    RelationCaller(parent2, geoID)) :
             /\ ~(out.errs[1] = OK /\ out.errs[2] = OK)
             /\ Cardinality(ParentsOnLevel(out.rels, geoID, LevelIdOf(locations, parent1))) <= 1

\* C28: two callers at the same time make two different names the primary
\* name of one location, each by SetPrimaryName or by InsertNameMap with
\* isPrimary: under every interleaving of their reads, demotions and inserts
\* the location has exactly one primary name afterwards.
C28_OnePrimaryAfterRace ==
    \A locationID \in UUIDs, op1 \in NameOps, op2 \in NameOps :
       (/\ LocationExists(locationID)
        /\ Cardinality(PrimaryRows(name_maps, locationID)) = 1)
       => \A out \in NameRaces(name_maps, NameCaller(op1, locationID, "b"),
                               NameCaller(op2, locationID, "c")) :
             Cardinality(PrimaryRows(out.rows, locationID)) = 1

\* the levels whose stored name contains the pattern put in upper case
LevelsContaining(pattern) ==
    {g \in LiveLevels : IsSubstring(ToUpperChars(Chars(pattern)), Chars(g.name))}

\* C30: GetGeoLevelsByPattern fails with ErrGeoLevelNameRequired on an empty
\* pattern, fails with ErrGeoLevelNotFound when no level name contains the
\* pattern put in upper case, and otherwise returns exactly the levels whose
\* name contains it; GetLocationsByPattern fails with ErrNameRequired on an
\* empty pattern and returns an empty list without error when nothing matches.
C30_LevelLookup ==
    /\ \A pattern \in LevelPatterns :
          LET res == GetGeoLevelsByPatternResult(pattern)
          IN  IF pattern = "" THEN res.err = ErrGeoLevelNameRequired
              ELSE IF LevelsContaining(pattern) = {} THEN res.err = ErrGeoLevelNotFound
              ELSE res.err = OK /\ res.geoLevels = LevelsContaining(pattern)
    /\ GetLocationsByPatternResult("").err = ErrNameRequired
    /\ \A pattern \in Patterns \ {""} :
          MatchingIgnoringCase(pattern) = {}
             => /\ GetLocationsByPatternResult(pattern).err = OK
                /\ GetLocationsByPatternResult(pattern).locations = {}

\* ---------------------------------------------------------------- C31
\* C31: every list read of the facade (GetLocations, GetLocationsByPattern,
\* GetAllParents, GetAllChildren, GetChildrenAtLevel) that returns no error
\* returns a list that is not nil, also when the list is empty; a nil list
\* comes only together with an error.
C31_ListsNeverNil ==
    /\ \A geoIDs \in SeqsUpTo(IdStrings, MaxList) :
         GetLocationsReturned(geoIDs).nil <=> GetLocationsReturned(geoIDs).err # OK
    /\ \A pattern \in Patterns :
         GetLocationsByPatternResult(pattern).nil <=> GetLocationsByPatternResult(pattern).err # OK
    /\ \A geoID \in IdStrings :
         /\ GetAllParentsResult(geoID).list.nil <=> GetAllParentsResult(geoID).err # OK
         /\ GetAllChildrenResult(geoID).list.nil <=> GetAllChildrenResult(geoID).err # OK
         /\ \A geoLevel \in LevelNameInputs :
              GetChildrenAtLevelResult(geoID, geoLevel).list.nil
                <=> GetChildrenAtLevelResult(geoID, geoLevel).err # OK

\* ---------------------------------------------------------------- C32
\* the child has a relation whose parent is on the level of parentID
HasParentOnLevelOf(rels, parentID, childID) ==
    ParentsOnLevel(rels, childID, LevelIdOf(locations, parentID)) # {}

\* C32: add_relationship evaluates its checks in the order self-relation,
\* parent exists, child exists, rank ordering, one parent per level, and
\* returns the error of the first check that fails: parent = child gives
\* the self-relation error also for an unknown id, an unknown parent or
\* child gives NotFound, a candidate that breaks the rank rule gives
\* InvalidHierarchy also when the child already has a parent on that level,
\* and DuplicateRelation is left for candidates that pass the rank rule.
\* The relation is inserted exactly when every check passes, and nothing
\* else changes in the table.  The facade call returns the same.
C32_CheckOrder ==
    \A parent \in UUIDs, child \in UUIDs :
       LET res == InsertRelationOn(relations, parent, child)
           expected ==
             IF parent = child THEN ErrSelfRelation
             ELSE IF ~LocationExists(parent) THEN ErrLocationNotFound
             ELSE IF ~LocationExists(child) THEN ErrLocationNotFound
             ELSE IF RankRejects(parent, child) THEN ErrInvalidHierarchy
             ELSE IF HasParentOnLevelOf(relations, parent, child) THEN ErrDuplicateRelation
             ELSE OK
       IN  /\ res.err = expected
           /\ res.rels = IF expected = OK
                           THEN relations \cup {[parent_id |-> parent, child_id |-> child]}
                           ELSE relations
           /\ AddParentResult(child, parent) = res

\* a candidate that breaks both the rank rule and the one-parent-per-level
\* rule has just been refused for its ranks
C32_Witness ==
    /\ err = ErrInvalidHierarchy
    /\ \E parent \in UUIDs, child \in UUIDs :
          /\ parent # child /\ LocationExists(parent) /\ LocationExists(child)
          /\ RankRejects(parent, child)
          /\ HasParentOnLevelOf(relations, parent, child)
          /\ [parent_id |-> parent, child_id |-> child] \notin relations

\* ---------------------------------------------------------------- C33
\* the parents of the locations in a set, and everything above a location
ParentsIn(rels, ids) == {r.parent_id : r \in {q \in rels : q.child_id \in ids}}

RECURSIVE AncestorsFrom(_, _)
AncestorsFrom(rels, found) ==
    LET more == found \cup ParentsIn(rels, found)
    IN  IF more = found THEN found ELSE AncestorsFrom(rels, more)

Ancestors(rels, id) == AncestorsFrom(rels, ParentsIn(rels, {id}))

\* C33: the relations never form a cycle: in every reachable state no
\* location is its own ancestor, whether or not the levels carry ranks.
C33_Acyclic == \A id \in UUIDs : id \notin Ancestors(relations, id)

\* ---------------------------------------------------------------- C34
\* C34: in every state reached by creating and re-ranking levels, creating
\* locations and adding and removing relations (no location changes its
\* level), every relation whose parent level and child level both carry a
\* rank has the parent's rank strictly below the child's rank.
C34_RanksStayOrdered == \A r \in relations : ~RankRejects(r.parent_id, r.child_id)

\* ---------------------------------------------------------------- C35
\* every relation joins two locations that exist and are not deleted
RelationsReferenceLiveLocations ==
    \A r \in relations : LocationExists(r.parent_id) /\ LocationExists(r.child_id)

\* C35: in every state reached by creating and deleting locations, adding
\* names one by one or in bulk, setting primary names and adding relations,
\* every name binding and every relation refers only to locations that
\* exist and are not deleted.
C35_NothingOnDeleted ==
    /\ \A n \in name_maps : LocationExists(n.location_id)
    /\ RelationsReferenceLiveLocations

\* ---------------------------------------------------------------- C36
\* the relations tables left by the calls that remove the relation between
\* parent p and child c and return no error: RemoveParent(c, p),
\* RemoveChildren(p, [c]) with c in one of the given spellings, and
\* DeleteLocation(p)
AfterRemoval(p, c, spellings) ==
    {out.rels : out \in {o \in RemoveParentOutcomes(relations, c, p) : o.err = OK}}
      \cup {RemoveChildrenResult(relations, p, <<s>>).rels : s \in spellings}
      \cup (IF LocationExists(p) THEN {DeleteLocationRelations(relations, p)} ELSE {})

\* after each removal in AfterRemoval every other location p2 of p's level
\* that passes the rank rule is accepted as a parent of c, as long as c has
\* no parent on that level besides p
AcceptedAfterRemoval(p, c, spellings) ==
    \A p2 \in UUIDs \ {p, c} :
       (/\ LocationExists(p2)
        /\ LevelIdOf(locations, p2) = LevelIdOf(locations, p)
        /\ ~RankRejects(p2, c)
        /\ ParentsOnLevel(relations, c, LevelIdOf(locations, p))
             \subseteq {[parent_id |-> p, child_id |-> c]})
         => \A rels \in AfterRemoval(p, c, spellings) : InsertRelationOn(rels, p2, c).err = OK

\* C36: removed relations never count toward the one-parent-per-level rule:
\* after remove_relationship(c, p), remove_children(p, [c]) or delete(p) has
\* succeeded on an existing relation (p, c), add_relationship(p2, c)
\* succeeds for every existing p2 # c of p's level that passes the rank
\* rule, provided c has no other parent on that level.
C36_RemovedDoNotCount ==
    \A r \in relations :
       AcceptedAfterRemoval(r.parent_id, r.child_id, {r.child_id, UpperSpelling(r.child_id)})

\* ---------------------------------------------------------------- C37
\* the name was held by a level that has been deleted and no level holds it now
NameOfDeletedLevel(name) ==
    /\ \E g \in geo_levels : g.deleted /\ g.name = ToUpper(name)
    /\ LevelByName(ToUpper(name)) = {}

\* C37: a level name can be used again after its level was deleted: once
\* delete(name) has succeeded, create(name, rank) succeeds and renaming
\* another existing level to that name succeeds.
C37_NameReusable ==
    [][\A name \in LevelNameInputs \ {""} :
          NameOfDeletedLevel(name) =>
             /\ \A rank \in RankInputs : InsertGeoLevel(name, rank) => err' = OK
             /\ \A other \in LevelNameInputs \ {""}, rank \in RankInputs :
                  (LevelByName(ToUpper(other)) # {} /\ UpdateGeoLevel(other, name, rank))
                     => err' = OK]_vars

\* ---------------------------------------------------------------- C38
\* the relations in which a location is neither parent nor child
NotTouching(rels, id) == {r \in rels : r.parent_id # id /\ r.child_id # id}

\* C38: delete(E) and remove_all_for_entity(E) change nothing outside E's
\* own records: the levels, every other location with its level, the name
\* bindings of every other location and every relation in which E is
\* neither parent nor child are as before, and the former parents and
\* children of E still exist.  remove_all_for_entity returns no error,
\* leaves locations and names alone, and changes nothing at all when E has
\* no relations or is unknown.
C38_DeleteFrame ==
    [][\A id \in UUIDs :
         /\ (DeleteLocation(id) \/ DeleteAllRelations(id)) =>
               /\ geo_levels' = geo_levels
               /\ {l \in locations' : l.id # id} = {l \in locations : l.id # id}
               /\ {n \in name_maps' : n.location_id # id} = {n \in name_maps : n.location_id # id}
               /\ NotTouching(relations', id) = NotTouching(relations, id)
               /\ \A r \in relations \ NotTouching(relations, id) :
                     \A other \in {r.parent_id, r.child_id} \ {id} :
                        \E l \in locations' : l.id = other /\ ~l.deleted
         /\ DeleteAllRelations(id) =>
               /\ err' = OK
               /\ UNCHANGED <<locations, name_maps>>
               /\ relations' = NotTouching(relations, id)
               /\ NotTouching(relations, id) = relations => UNCHANGED relations]_vars

\* a location that is still there with its name and without relations next
\* to two locations that are still related
C38_Witness ==
    /\ err = OK
    /\ \E e \in LiveLocations :
          /\ NamesOf(name_maps, e.id) # {}
          /\ NotTouching(relations, e.id) = relations
          /\ \E r \in relations : LocationExists(r.parent_id) /\ LocationExists(r.child_id)

\* ---------------------------------------------------------------- C39
\* C39: when RemoveChildren(p, ids) and RemoveParent(c, p) run at the same
\* time on relations of p, under every interleaving of their reads and
\* deletes RemoveChildren returns no error, and RemoveParent removes no
\* relation other than (p, c): the read that selects the relations and the
\* deletes act as one step.
C39_ReadAndDeleteAtOnce ==
    \A p \in UUIDs, c \in UUIDs, ids \in SeqsUpTo(UUIDs, MaxList) :
       \A out \in RemoveRaces(relations, RemoveCaller("RemoveChildren", p, ids),
                              RemoveCaller("RemoveParent", p, <<c>>)) :
          /\ out.errs[1] = OK
          /\ out.removed[2] \subseteq {[parent_id |-> p, child_id |-> c]}

====
